---- MODULE Spec2Model ----
(***************************************************************************)
(* Mamdani fuzzy inference engine of the movie recommender                 *)
(* (src/src/fuzzy_logic): variable catalog, rule engine, inference.        *)
(*                                                                         *)
(* Number representation.  The code computes in floating point; the model  *)
(* computes the same expressions in exact arithmetic on scaled integers:   *)
(*   - a membership degree, a firing strength or a curve sample d is the   *)
(*     integer d * DegreeOne;                                              *)
(*   - a user rating r is the integer 20 * r (the grid step 0.1 is 2), an  *)
(*     actor popularity or genre match p is the integer 2 * p (the grid    *)
(*     step 1 is 2), so inputs halfway between two grid samples exist;     *)
(*   - a point of the output universe is the integer itself;               *)
(*   - a rule confidence c is the integer 10 * c;                          *)
(*   - a score or a confidence level is a reduced fraction [num, den].     *)
(* Rounding error of the floating-point operations is outside the model.   *)
(***************************************************************************)
EXTENDS Integers, Sequences, FiniteSets, TLC

\* The float 1.0 of a membership degree, as a scaled integer.  84000 makes
\* every degree, clipped sample and firing strength of the model an integer.
DegreeOne == 84000

\* ------------------------------------------------------------------ helpers

Min2(a, b) == IF a <= b THEN a ELSE b

Max2(a, b) == IF a >= b THEN a ELSE b

RECURSIVE Gcd(_, _)
Gcd(a, b) == IF b = 0 THEN a ELSE Gcd(b, a % b)

\* The fraction n / d (d > 0, n >= 0) in lowest terms.
Rat(n, d) ==
    LET g == Gcd(n, d)
    IN  [num |-> n \div g, den |-> d \div g]

RatZero == [num |-> 0, den |-> 1]

RatLeq(p, q) == p.num * q.den <= q.num * p.den

\* The array with the elements of f, each computed once.
ArrayOf(f) == SubSeq(f, 1, Len(f))

RECURSIVE SeqMin(_)
SeqMin(s) == IF Len(s) = 1 THEN s[1] ELSE Min2(s[1], SeqMin(Tail(s)))

RECURSIVE SeqMax(_)
SeqMax(s) == IF Len(s) = 1 THEN s[1] ELSE Max2(s[1], SeqMax(Tail(s)))

RECURSIVE SeqSum(_)
SeqSum(s) == IF s = <<>> THEN 0 ELSE s[1] + SeqSum(Tail(s))

\* ------------------------------------------------ membership function library

\* triangular_mf without the peak handling (mf[x == b] = 1.0); C17 fails
\* under it.
TrimfNoPeak(x, a, b, c) ==
    IF x >= a /\ x <= b /\ b # a THEN ((x - a) * DegreeOne) \div (b - a)
    ELSE IF x > b /\ x <= c /\ c # b THEN ((c - x) * DegreeOne) \div (c - b)
    ELSE 0

\* triangular_mf at one point x, parameters a <= b <= c.
Trimf(x, a, b, c) ==
    IF x = b THEN DegreeOne
    ELSE IF x >= a /\ x <= b /\ b # a THEN ((x - a) * DegreeOne) \div (b - a)
    ELSE IF x > b /\ x <= c /\ c # b THEN ((c - x) * DegreeOne) \div (c - b)
    ELSE 0

\* trapezoidal_mf without the two vertical-edge cases; C18 fails under it.
TrapmfNoEdges(x, a, b, c, d) ==
    IF x > c /\ x <= d /\ d # c THEN ((d - x) * DegreeOne) \div (d - c)
    ELSE IF x > b /\ x <= c THEN DegreeOne
    ELSE IF x >= a /\ x <= b /\ b # a THEN ((x - a) * DegreeOne) \div (b - a)
    ELSE 0

\* trapezoidal_mf at one point x, parameters a <= b <= c <= d.  The later
\* assignments of the code override the earlier ones.
Trapmf(x, a, b, c, d) ==
    IF (c = d /\ x = d) \/ (b = a /\ x = a) THEN DegreeOne
    ELSE IF x > c /\ x <= d /\ d # c THEN ((d - x) * DegreeOne) \div (d - c)
    ELSE IF x > b /\ x <= c THEN DegreeOne
    ELSE IF x >= a /\ x <= b /\ b # a THEN ((x - a) * DegreeOne) \div (b - a)
    ELSE 0

\* calculate_membership_degree taking the sample at the grid value below
\* x_val in place of np.interp; C16 fails under it.
CalculateMembershipDegreeNoInterpolation(x_val, x_universe, mf_values) ==
    LET n == Len(x_universe)
    IN  IF x_val <= x_universe[1] THEN mf_values[1]
        ELSE IF x_val >= x_universe[n] THEN mf_values[n]
        ELSE mf_values[CHOOSE k \in 1..(n - 1) :
                          x_universe[k] <= x_val /\ x_val < x_universe[k + 1]]

\* triangular_mf on the array x: the parameter check, then the degree of
\* every point.
TriangularMf(x, params) ==
    IF ~(params[1] <= params[2] /\ params[2] <= params[3])
    THEN [raised |-> "ValueError", returned |-> <<>>]
    ELSE [raised |-> "none",
          returned |-> <<[i \in 1..Len(x) |->
                             Trimf(x[i], params[1], params[2], params[3])]>>]

\* trapezoidal_mf on the array x: the parameter check, then the degree of
\* every point.
TrapezoidalMf(x, params) ==
    IF ~(params[1] <= params[2] /\ params[2] <= params[3] /\ params[3] <= params[4])
    THEN [raised |-> "ValueError", returned |-> <<>>]
    ELSE [raised |-> "none",
          returned |-> <<[i \in 1..Len(x) |->
                             Trapmf(x[i], params[1], params[2], params[3],
                                    params[4])]>>]

\* calculate_membership_degree: clamp outside the grid, np.interp inside.
CalculateMembershipDegree(x_val, x_universe, mf_values) ==
    LET n == Len(x_universe)
    IN  IF x_val <= x_universe[1] THEN mf_values[1]
        ELSE IF x_val >= x_universe[n] THEN mf_values[n]
        ELSE LET i == CHOOSE k \in 1..(n - 1) :
                          x_universe[k] <= x_val /\ x_val < x_universe[k + 1]
                 dx == x_universe[i + 1] - x_universe[i]
             IN  mf_values[i] +
                 ((mf_values[i + 1] - mf_values[i]) * (x_val - x_universe[i])) \div dx

\* ------------------------------------------------------- variable catalog

\* np.arange(1, 11, 0.1): the 100 points 1.0, 1.1, ..., 10.9.
UserRatingUniverse == [i \in 1..100 |-> 20 + 2 * (i - 1)]

\* np.arange(0, 101, 1) of an input variable: 0, 1, ..., 100.
PercentUniverse == [i \in 1..101 |-> 2 * (i - 1)]

\* np.arange(0, 101, 1) of the output variable.
RecommendationUniverse == [i \in 1..101 |-> i - 1]

InputVariableNames == <<"user_rating", "actor_popularity", "genre_match">>

\* FuzzyVariables.get_variables(): per variable the universe, the ordered
\* term names and the sampled membership array of every term.
Variables ==
    [user_rating |->
        [universe |-> UserRatingUniverse,
         terms |-> <<"low", "medium", "high">>,
         mf |-> [low    |-> [i \in 1..100 |-> Trimf(UserRatingUniverse[i], 20, 20, 80)],
                 medium |-> [i \in 1..100 |-> Trimf(UserRatingUniverse[i], 40, 110, 160)],
                 high   |-> [i \in 1..100 |-> Trimf(UserRatingUniverse[i], 120, 200, 200)]]],
     actor_popularity |->
        [universe |-> PercentUniverse,
         terms |-> <<"unknown", "known", "famous">>,
         mf |-> [unknown |-> [i \in 1..101 |-> Trapmf(PercentUniverse[i], 0, 0, 40, 80)],
                 known   |-> [i \in 1..101 |-> Trapmf(PercentUniverse[i], 40, 80, 120, 160)],
                 famous  |-> [i \in 1..101 |-> Trapmf(PercentUniverse[i], 120, 160, 200, 200)]]],
     genre_match |->
        [universe |-> PercentUniverse,
         terms |-> <<"poor", "moderate", "excellent">>,
         mf |-> [poor      |-> [i \in 1..101 |-> Trimf(PercentUniverse[i], 0, 0, 70)],
                 moderate  |-> [i \in 1..101 |-> Trimf(PercentUniverse[i], 40, 100, 160)],
                 excellent |-> [i \in 1..101 |-> Trimf(PercentUniverse[i], 130, 200, 200)]]],
     recommendation |->
        [universe |-> RecommendationUniverse,
         terms |-> <<"not_recommended", "possibly_recommended",
                     "recommended", "highly_recommended">>,
         mf |-> [not_recommended      |-> [i \in 1..101 |-> Trimf(i - 1, 0, 0, 25)],
                 possibly_recommended |-> [i \in 1..101 |-> Trimf(i - 1, 15, 40, 65)],
                 recommended          |-> [i \in 1..101 |-> Trimf(i - 1, 50, 75, 90)],
                 highly_recommended   |-> [i \in 1..101 |-> Trimf(i - 1, 80, 100, 100)]]]]

TermSet(var) == {var.terms[i] : i \in 1..Len(var.terms)}

\* ------------------------------------------------------------- fuzzification

\* _validate_inputs with the lower bounds left out; C1 fails under it.
ValidateInputsUpperOnly(user_rating, actor_popularity, genre_match) ==
    IF ~(user_rating <= 200) THEN "ValueError"
    ELSE IF ~(actor_popularity <= 200) THEN "ValueError"
    ELSE IF ~(genre_match <= 200) THEN "ValueError"
    ELSE "ok"

\* _validate_inputs: the first violated range check raises ValueError.
ValidateInputs(user_rating, actor_popularity, genre_match) ==
    IF ~(20 <= user_rating /\ user_rating <= 200) THEN "ValueError"
    ELSE IF ~(0 <= actor_popularity /\ actor_popularity <= 200) THEN "ValueError"
    ELSE IF ~(0 <= genre_match /\ genre_match <= 200) THEN "ValueError"
    ELSE "ok"

\* The loop of fuzzify_inputs over the terms of one variable.
FuzzifyVariable(var, value) ==
    [t \in TermSet(var) |-> CalculateMembershipDegree(value, var.universe, var.mf[t])]

\* fuzzify_inputs after validation: variable -> term -> degree.
FuzzifyInputs(vars, user_rating, actor_popularity, genre_match) ==
    [user_rating      |-> FuzzifyVariable(vars.user_rating, user_rating),
     actor_popularity |-> FuzzifyVariable(vars.actor_popularity, actor_popularity),
     genre_match      |-> FuzzifyVariable(vars.genre_match, genre_match)]

\* ---------------------------------------------------------------- rule base

Cond(v, t) == [variable_name |-> v, linguistic_term |-> t, negated |-> FALSE]

NotCond(v, t) == [variable_name |-> v, linguistic_term |-> t, negated |-> TRUE]

\* FuzzyRule (the description string is not modelled).  operator is one of
\* the RuleOperator values "AND", "OR", "NOT"; confidence is in tenths.
Rule(id, ants, cons, op, conf) ==
    [rule_id |-> id, antecedents |-> ants, consequent |-> cons,
     operator |-> op, confidence |-> conf]

\* The fifteen add_rule calls of create_movie_recommendation_rules, in order
\* (RuleConfidence HIGH = 1.0, MEDIUM = 0.8, LOW = 0.6).
DefaultRules ==
    << Rule(1, <<Cond("user_rating", "high"), Cond("actor_popularity", "famous"),
                 Cond("genre_match", "excellent")>>,
            Cond("recommendation", "highly_recommended"), "AND", 10),
       Rule(2, <<Cond("user_rating", "high"), Cond("genre_match", "excellent")>>,
            Cond("recommendation", "highly_recommended"), "AND", 10),
       Rule(3, <<Cond("actor_popularity", "famous"), Cond("genre_match", "excellent")>>,
            Cond("recommendation", "highly_recommended"), "AND", 8),
       Rule(4, <<Cond("user_rating", "high"), Cond("actor_popularity", "known")>>,
            Cond("recommendation", "recommended"), "AND", 10),
       Rule(5, <<Cond("user_rating", "medium"), Cond("actor_popularity", "famous"),
                 Cond("genre_match", "excellent")>>,
            Cond("recommendation", "recommended"), "AND", 8),
       Rule(6, <<Cond("user_rating", "medium"), Cond("genre_match", "excellent")>>,
            Cond("recommendation", "recommended"), "AND", 8),
       Rule(7, <<Cond("user_rating", "high"), Cond("genre_match", "moderate")>>,
            Cond("recommendation", "recommended"), "AND", 8),
       Rule(8, <<Cond("user_rating", "medium"), Cond("actor_popularity", "known"),
                 Cond("genre_match", "moderate")>>,
            Cond("recommendation", "possibly_recommended"), "AND", 8),
       Rule(9, <<Cond("actor_popularity", "famous"), Cond("genre_match", "moderate")>>,
            Cond("recommendation", "possibly_recommended"), "AND", 6),
       Rule(10, <<Cond("user_rating", "high"), Cond("genre_match", "poor")>>,
            Cond("recommendation", "possibly_recommended"), "AND", 6),
       Rule(11, <<Cond("user_rating", "medium"), Cond("actor_popularity", "famous")>>,
            Cond("recommendation", "possibly_recommended"), "AND", 6),
       Rule(12, <<Cond("user_rating", "low"), Cond("genre_match", "poor")>>,
            Cond("recommendation", "not_recommended"), "AND", 10),
       Rule(13, <<Cond("user_rating", "low"), Cond("actor_popularity", "unknown")>>,
            Cond("recommendation", "not_recommended"), "AND", 10),
       Rule(14, <<Cond("user_rating", "low"), Cond("actor_popularity", "known"),
                  Cond("genre_match", "poor")>>,
            Cond("recommendation", "not_recommended"), "AND", 8),
       Rule(15, <<Cond("actor_popularity", "unknown"), Cond("genre_match", "excellent"),
                  Cond("user_rating", "medium")>>,
            Cond("recommendation", "possibly_recommended"), "AND", 6) >>

\* The statistics entry add_rule creates.  The average is a reduced fraction.
ZeroStatistics ==
    [activation_count |-> 0,
     average_activation_strength |-> RatZero,
     total_activation_strength |-> 0]

RuleIds(rules) == {rules[i].rule_id : i \in 1..Len(rules)}

\* add_rule without the duplicate-id check; C8 fails under it.
AddRuleCallNoDuplicateCheck(re, rule) ==
    IF rule.antecedents = <<>> THEN [raised |-> "ValueError", rule_engine |-> re]
    ELSE IF ~(0 <= rule.confidence /\ rule.confidence <= 10)
        THEN [raised |-> "ValueError", rule_engine |-> re]
    ELSE [raised |-> "none",
          rule_engine |->
            [rules |-> Append(re.rules, rule),
             rule_statistics |->
                [id \in DOMAIN re.rule_statistics \cup {rule.rule_id} |->
                    IF id = rule.rule_id THEN ZeroStatistics
                    ELSE re.rule_statistics[id]]]]

\* add_rule on a rule engine [rules, rule_statistics]: the three checks in
\* the order of the code, then the append and the fresh statistics entry.
\* No check looks at the operator or at the terms the conditions name.
AddRuleCall(re, rule) ==
    IF rule.antecedents = <<>> THEN [raised |-> "ValueError", rule_engine |-> re]
    ELSE IF ~(0 <= rule.confidence /\ rule.confidence <= 10)
        THEN [raised |-> "ValueError", rule_engine |-> re]
    ELSE IF \E i \in 1..Len(re.rules) : re.rules[i].rule_id = rule.rule_id
        THEN [raised |-> "ValueError", rule_engine |-> re]
    ELSE [raised |-> "none",
          rule_engine |->
            [rules |-> Append(re.rules, rule),
             rule_statistics |->
                [id \in DOMAIN re.rule_statistics \cup {rule.rule_id} |->
                    IF id = rule.rule_id THEN ZeroStatistics
                    ELSE re.rule_statistics[id]]]]

RECURSIVE AddRules(_, _, _)
AddRules(re, rules, i) ==
    IF i > Len(rules) THEN [raised |-> "none", rule_engine |-> re]
    ELSE LET r == AddRuleCall(re, rules[i])
         IN  IF r.raised # "none" THEN r ELSE AddRules(r.rule_engine, rules, i + 1)

\* create_movie_recommendation_rules without the rules.clear(): the first
\* add_rule meets its own id in a rule base that is not empty; C29 fails
\* under it.
CreateMovieRecommendationRulesCallKeepingRules(re) ==
    AddRules(re, DefaultRules, 1)

\* create_movie_recommendation_rules: rules.clear() (the statistics are not
\* cleared), the fifteen add_rule calls, then _validate_rules, which only
\* prints warnings.
CreateMovieRecommendationRulesCall(re) ==
    AddRules([rules |-> <<>>, rule_statistics |-> re.rule_statistics], DefaultRules, 1)

\* FuzzyRuleEngine() followed by create_movie_recommendation_rules().
InitialRuleEngine ==
    CreateMovieRecommendationRulesCall(
        [rules |-> <<>>, rule_statistics |-> <<>>]).rule_engine

\* ------------------------------------------------------------ rule evaluation

\* _update_rule_statistics storing the strength of this evaluation as the
\* average (no division of the total by the count); C28 fails under it.
UpdateRuleStatisticsLastStrength(stats, rule_id, activation_strength) ==
    IF rule_id \in DOMAIN stats
    THEN LET count == stats[rule_id].activation_count + 1
             total == stats[rule_id].total_activation_strength + activation_strength
         IN  [stats EXCEPT ![rule_id] =
                [activation_count |-> count,
                 total_activation_strength |-> total,
                 average_activation_strength |-> Rat(activation_strength, 1)]]
    ELSE stats

\* _update_rule_statistics
UpdateRuleStatistics(stats, rule_id, activation_strength) ==
    IF rule_id \in DOMAIN stats
    THEN LET count == stats[rule_id].activation_count + 1
             total == stats[rule_id].total_activation_strength + activation_strength
         IN  [stats EXCEPT ![rule_id] =
                [activation_count |-> count,
                 total_activation_strength |-> total,
                 average_activation_strength |-> Rat(total, count)]]
    ELSE stats

\* The antecedent loop of evaluate_rule taking the degree of a negated
\* condition as it is (no 1 - degree); C19 fails under it.
RECURSIVE AntecedentMembershipsIgnoringNegation(_, _, _)
AntecedentMembershipsIgnoringNegation(ants, input_memberships, i) ==
    IF i > Len(ants) THEN [missing |-> FALSE, degrees |-> <<>>]
    ELSE LET c == ants[i]
         IN  IF c.variable_name \in DOMAIN input_memberships
                /\ c.linguistic_term \in DOMAIN input_memberships[c.variable_name]
             THEN LET m == input_memberships[c.variable_name][c.linguistic_term]
                      rest == AntecedentMembershipsIgnoringNegation(
                                  ants, input_memberships, i + 1)
                  IN  [missing |-> rest.missing, degrees |-> <<m>> \o rest.degrees]
             ELSE [missing |-> TRUE, degrees |-> <<>>]

\* The antecedent loop of evaluate_rule: the degrees collected so far, or
\* "missing" as soon as a variable or term is absent from the map.
RECURSIVE AntecedentMemberships(_, _, _)
AntecedentMemberships(ants, input_memberships, i) ==
    IF i > Len(ants) THEN [missing |-> FALSE, degrees |-> <<>>]
    ELSE LET c == ants[i]
         IN  IF c.variable_name \in DOMAIN input_memberships
                /\ c.linguistic_term \in DOMAIN input_memberships[c.variable_name]
             THEN LET m == input_memberships[c.variable_name][c.linguistic_term]
                      d == IF c.negated THEN DegreeOne - m ELSE m
                      rest == AntecedentMemberships(ants, input_memberships, i + 1)
                  IN  [missing |-> rest.missing, degrees |-> <<d>> \o rest.degrees]
             ELSE [missing |-> TRUE, degrees |-> <<>>]

\* evaluate_rule damping a rule that has been evaluated before (its strength
\* halved once activation_count is positive); C3 fails under it.
EvaluateRuleDamped(rule, input_memberships, stats) ==
    LET am == AntecedentMemberships(rule.antecedents, input_memberships, 1)
    IN  IF am.missing
        THEN [raised |-> "none", strength |-> 0, rule_statistics |-> stats]
        ELSE IF rule.operator \notin {"AND", "OR"}
        THEN [raised |-> "ValueError", strength |-> 0, rule_statistics |-> stats]
        ELSE LET rule_strength == IF rule.operator = "AND" THEN SeqMin(am.degrees)
                                  ELSE SeqMax(am.degrees)
                 seen == rule.rule_id \in DOMAIN stats
                         /\ stats[rule.rule_id].activation_count > 0
                 final_strength == (rule_strength * rule.confidence)
                                   \div (IF seen THEN 20 ELSE 10)
             IN  [raised |-> "none", strength |-> final_strength,
                  rule_statistics |->
                     UpdateRuleStatistics(stats, rule.rule_id, final_strength)]

\* evaluate_rule: the strength returned (or the exception raised) and the
\* statistics after the call.
EvaluateRule(rule, input_memberships, stats) ==
    LET am == AntecedentMemberships(rule.antecedents, input_memberships, 1)
    IN  IF am.missing
        THEN [raised |-> "none", strength |-> 0, rule_statistics |-> stats]
        ELSE IF rule.operator \notin {"AND", "OR"}
        THEN [raised |-> "ValueError", strength |-> 0, rule_statistics |-> stats]
        ELSE LET rule_strength == IF rule.operator = "AND" THEN SeqMin(am.degrees)
                                  ELSE SeqMax(am.degrees)
                 final_strength == (rule_strength * rule.confidence) \div 10
             IN  [raised |-> "none", strength |-> final_strength,
                  rule_statistics |->
                     UpdateRuleStatistics(stats, rule.rule_id, final_strength)]

\* list.sort(key = strength, reverse = True): stable, descending.
RECURSIVE InsertDesc(_, _)
InsertDesc(s, e) ==
    IF s = <<>> THEN <<e>>
    ELSE IF s[1][2] >= e[2] THEN <<s[1]>> \o InsertDesc(Tail(s), e)
    ELSE <<e>> \o s

RECURSIVE SortDesc(_, _)
SortDesc(s, n) == IF n = 0 THEN <<>> ELSE InsertDesc(SortDesc(s, n - 1), s[n])

\* The loop of evaluate_all_rules recording every evaluated rule, those of
\* strength 0 included (>= 0 for > 0); C4 fails under it.
RECURSIVE EvaluateRulesFromNonNegative(_, _, _, _)
EvaluateRulesFromNonNegative(rules, input_memberships, i, acc) ==
    IF i > Len(rules) THEN acc
    ELSE LET r == EvaluateRule(rules[i], input_memberships, acc.rule_statistics)
             t == rules[i].consequent.linguistic_term
             e == <<rules[i].rule_id, r.strength>>
         IN  IF r.raised # "none"
             THEN [acc EXCEPT !.raised = r.raised]
             ELSE EvaluateRulesFromNonNegative(rules, input_memberships, i + 1,
                    [raised |-> "none",
                     rule_statistics |-> r.rule_statistics,
                     activated |->
                        IF r.strength >= 0
                        THEN [u \in DOMAIN acc.activated \cup {t} |->
                                IF u \in DOMAIN acc.activated
                                THEN IF u = t THEN Append(acc.activated[u], e)
                                     ELSE acc.activated[u]
                                ELSE <<e>>]
                        ELSE acc.activated])

\* The body of the loop of evaluate_all_rules after evaluate_rule returned:
\* a rule of positive strength is appended to the list of its consequent term.
RecordActivation(consequent_activations, rule, activation_strength) ==
    LET t == rule.consequent.linguistic_term
        e == <<rule.rule_id, activation_strength>>
    IN  IF activation_strength > 0
        THEN [u \in DOMAIN consequent_activations \cup {t} |->
                IF u \in DOMAIN consequent_activations
                THEN IF u = t THEN Append(consequent_activations[u], e)
                     ELSE consequent_activations[u]
                ELSE <<e>>]
        ELSE consequent_activations

\* evaluate_all_rules without its final loop: the lists stay in the order in
\* which the rules were evaluated; C20 fails under it.
SortActivationsOmitted(consequent_activations) ==
    [t \in DOMAIN consequent_activations |-> consequent_activations[t]]

\* The final loop of evaluate_all_rules: every list sorted by strength.
SortActivations(consequent_activations) ==
    [t \in DOMAIN consequent_activations |->
        SortDesc(consequent_activations[t], Len(consequent_activations[t]))]

\* The loop of evaluate_all_rules from rule i on; acc holds the statistics
\* and the consequent_activations dict built so far.
RECURSIVE EvaluateRulesFrom(_, _, _, _)
EvaluateRulesFrom(rules, input_memberships, i, acc) ==
    IF i > Len(rules) THEN acc
    ELSE LET r == EvaluateRule(rules[i], input_memberships, acc.rule_statistics)
         IN  IF r.raised # "none"
             THEN [acc EXCEPT !.raised = r.raised]
             ELSE EvaluateRulesFrom(rules, input_memberships, i + 1,
                    [raised |-> "none",
                     rule_statistics |-> r.rule_statistics,
                     activated |-> RecordActivation(acc.activated, rules[i],
                                                    r.strength)])

\* evaluate_all_rules reordering self.rules in place (the first rule moved to
\* the end); C9 fails under it.
EvaluateAllRulesReordering(re, input_memberships) ==
    LET acc == EvaluateRulesFrom(re.rules, input_memberships, 1,
                 [raised |-> "none", rule_statistics |-> re.rule_statistics,
                  activated |-> <<>>])
    IN  [raised |-> acc.raised,
         rule_engine |-> [rules |-> Tail(re.rules) \o <<Head(re.rules)>>,
                          rule_statistics |-> acc.rule_statistics],
         activated |-> [t \in DOMAIN acc.activated |->
                          SortDesc(acc.activated[t], Len(acc.activated[t]))]]

\* evaluate_all_rules on a rule engine: the exception raised (if an
\* evaluate_rule call raised), the rule engine afterwards and the returned
\* dict consequent term -> [(rule_id, strength), ...], each list sorted.
EvaluateAllRules(re, input_memberships) ==
    LET acc == EvaluateRulesFrom(re.rules, input_memberships, 1,
                 [raised |-> "none", rule_statistics |-> re.rule_statistics,
                  activated |-> <<>>])
    IN  [raised |-> acc.raised,
         rule_engine |-> [rules |-> re.rules, rule_statistics |-> acc.rule_statistics],
         activated |-> SortActivations(acc.activated)]

\* ------------------------------------------------- aggregation, defuzzification

\* max(activation for _, activation in rule_activations)
MaxActivation(rule_activations) ==
    SeqMax([i \in 1..Len(rule_activations) |-> rule_activations[i][2]])

\* The aggregation loop of _defuzzify_output without the clipping
\* (np.minimum): the consequent curves are fused as they are; C21 fails under
\* it.
AggregatedMfUnclipped(rec_var, activated_rules) ==
    ArrayOf([i \in 1..Len(rec_var.universe) |->
        LET fused == {rec_var.mf[t][i] :
                          t \in DOMAIN activated_rules \cap TermSet(rec_var)}
        IN  IF fused = {} THEN 0
            ELSE CHOOSE m \in fused : \A c \in fused : c <= m])

\* The aggregation loop of _defuzzify_output: np.zeros_like(universe), then
\* for every activated consequent term that is a term of the output variable
\* np.maximum(aggregated, np.minimum(consequent_mf, max_activation)).
AggregatedMf(rec_var, activated_rules) ==
    ArrayOf([i \in 1..Len(rec_var.universe) |->
        LET clipped == {Min2(rec_var.mf[t][i], MaxActivation(activated_rules[t])) :
                            t \in DOMAIN activated_rules \cap TermSet(rec_var)}
        IN  IF clipped = {} THEN 0
            ELSE CHOOSE m \in clipped : \A c \in clipped : c <= m])

\* sum(f[lo..hi]), splitting the range in halves.
RECURSIVE RangeSum(_, _, _)
RangeSum(f, lo, hi) ==
    IF lo > hi THEN 0
    ELSE IF lo = hi THEN f[lo]
    ELSE LET mid == (lo + hi) \div 2
         IN  RangeSum(f, lo, mid) + RangeSum(f, mid + 1, hi)

\* max(f[lo..hi]) of a non-empty range, splitting the range in halves.
RECURSIVE RangeMax(_, _, _)
RangeMax(f, lo, hi) ==
    IF lo = hi THEN f[lo]
    ELSE LET mid == (lo + hi) \div 2
         IN  Max2(RangeMax(f, lo, mid), RangeMax(f, mid + 1, hi))

\* np.sum(mf)
SumMf(mf) == RangeSum(mf, 1, Len(mf))

\* np.sum(universe * mf)
SumProduct(universe, mf) ==
    RangeSum([i \in 1..Len(mf) |-> universe[i] * mf[i]], 1, Len(mf))

\* _centroid_defuzzification dividing by np.sum(universe) in place of
\* np.sum(mf); C14 fails under it.
CentroidDefuzzificationOverUniverse(universe, mf) ==
    IF SumMf(mf) = 0 THEN RatZero
    ELSE Rat(SumProduct(universe, mf), DegreeOne * RangeSum(universe, 1, Len(universe)))

\* _centroid_defuzzification with the weights dropped, the mean of the grid;
\* C15 fails under it.
CentroidDefuzzificationUnweighted(universe, mf) ==
    IF SumMf(mf) = 0 THEN RatZero
    ELSE Rat(RangeSum(universe, 1, Len(universe)), Len(universe))

\* _centroid_defuzzification falling back to the middle of the universe when
\* the curve is all-zero; C5 fails under it.
CentroidDefuzzificationMidpoint(universe, mf) ==
    IF SumMf(mf) = 0 THEN Rat(universe[1] + universe[Len(universe)], 2)
    ELSE Rat(SumProduct(universe, mf), SumMf(mf))

\* _centroid_defuzzification
CentroidDefuzzification(universe, mf) ==
    IF SumMf(mf) = 0 THEN RatZero
    ELSE Rat(SumProduct(universe, mf), SumMf(mf))

\* Twice the area of segment i: (mf[i] + mf[i+1]) * (universe[i+1] - universe[i]).
SegmentArea2(universe, mf, i) == (mf[i] + mf[i + 1]) * (universe[i + 1] - universe[i])

\* Twice cumulative_area after the loop body has run for segments 1..i.
CumulativeArea2(universe, mf) ==
    LET seg == ArrayOf([i \in 1..(Len(universe) - 1) |-> SegmentArea2(universe, mf, i)])
    IN  ArrayOf([i \in 1..(Len(universe) - 1) |-> RangeSum(seg, 1, i)])

\* _bisector_defuzzification: np.trapz is the sum of all segment areas; the
\* loop returns universe[i] for the first segment i at which the cumulative
\* area reaches half of it, and universe[-1] if none does.
BisectorDefuzzification(universe, mf) ==
    LET n == Len(universe)
        cum2 == CumulativeArea2(universe, mf)
        total2 == IF n > 1 THEN cum2[n - 1] ELSE 0
        reached == {i \in 1..(n - 1) : 2 * cum2[i] >= total2}
    IN  IF total2 = 0 THEN RatZero
        ELSE IF reached = {} THEN Rat(universe[n], 1)
        ELSE Rat(universe[CHOOSE i \in reached : \A j \in reached : i <= j], 1)

\* np.max(mf)
MaxVal(mf) == RangeMax(mf, 1, Len(mf))

\* np.where(mf > 0)[0] in place of np.where(mf == max_val)[0]; C24 fails
\* under it.
MaxIndicesNonZero(mf) == {i \in 1..Len(mf) : mf[i] > 0}

\* np.where(mf == max_val)[0]
MaxIndices(mf) ==
    LET max_val == MaxVal(mf)
    IN  {i \in 1..Len(mf) : mf[i] = max_val}

\* _mom_defuzzification
MomDefuzzification(universe, mf) ==
    LET max_indices == MaxIndices(mf)
    IN  IF MaxVal(mf) = 0 THEN RatZero
        ELSE Rat(RangeSum([i \in 1..Len(mf) |->
                              IF i \in max_indices THEN universe[i] ELSE 0],
                          1, Len(mf)),
                 Cardinality(max_indices))

\* _som_defuzzification
SomDefuzzification(universe, mf) ==
    LET max_indices == MaxIndices(mf)
    IN  IF MaxVal(mf) = 0 THEN RatZero
        ELSE Rat(universe[CHOOSE i \in max_indices : \A j \in max_indices : i <= j], 1)

\* _lom_defuzzification
LomDefuzzification(universe, mf) ==
    LET max_indices == MaxIndices(mf)
    IN  IF MaxVal(mf) = 0 THEN RatZero
        ELSE Rat(universe[CHOOSE i \in max_indices : \A j \in max_indices : i >= j], 1)

\* DefuzzificationMethod values.
DefuzzificationMethods ==
    {"centroid", "bisector", "mean_of_maximum", "smallest_of_maximum",
     "largest_of_maximum"}

\* The method dispatch at the end of _defuzzify_output.
ApplyDefuzzification(method, universe, mf) ==
    CASE method = "centroid" -> CentroidDefuzzification(universe, mf)
      [] method = "bisector" -> BisectorDefuzzification(universe, mf)
      [] method = "mean_of_maximum" -> MomDefuzzification(universe, mf)
      [] method = "smallest_of_maximum" -> SomDefuzzification(universe, mf)
      [] method = "largest_of_maximum" -> LomDefuzzification(universe, mf)
      [] OTHER -> CentroidDefuzzification(universe, mf)

\* _defuzzify_output
DefuzzifyOutput(vars, method, activated_rules) ==
    IF DOMAIN activated_rules = {} THEN RatZero
    ELSE ApplyDefuzzification(method, vars.recommendation.universe,
                              AggregatedMf(vars.recommendation, activated_rules))

\* ------------------------------------------------------------------ confidence

SetMax(S) == CHOOSE m \in S : \A e \in S : e <= m

RECURSIVE SetSum(_, _)
SetSum(f, S) ==
    IF S = {} THEN 0
    ELSE LET e == CHOOSE k \in S : TRUE
         IN  f[e] + SetSum(f, S \ {e})

\* _calculate_confidence with input_certainty left as the sum over the
\* variables (not divided by total_vars) and the result not capped; C6 fails
\* under it.
CalculateConfidenceUnnormalised(activated_rules, membership_degrees) ==
    IF DOMAIN activated_rules = {} THEN RatZero
    ELSE LET max_activation ==
                 SetMax({0} \cup {MaxActivation(activated_rules[t]) :
                                    t \in DOMAIN activated_rules})
             certainty_sum ==
                 SetSum([v \in DOMAIN membership_degrees |->
                            SetMax({membership_degrees[v][t] :
                                      t \in DOMAIN membership_degrees[v]})],
                        DOMAIN membership_degrees)
             total_activated ==
                 SetSum([t \in DOMAIN activated_rules |-> Len(activated_rules[t])],
                        DOMAIN activated_rules)
         IN  Rat(25 * max_activation + 15 * certainty_sum
                 + 2 * DegreeOne * Min2(5, total_activated),
                 50 * DegreeOne)

\* _calculate_confidence counting the consequent terms of the map
\* (len(activated_rules)) in place of the fired rules; C22 fails under it.
CalculateConfidenceCountingTerms(activated_rules, membership_degrees) ==
    IF DOMAIN activated_rules = {} THEN RatZero
    ELSE LET max_activation ==
                 SetMax({0} \cup {MaxActivation(activated_rules[t]) :
                                    t \in DOMAIN activated_rules})
             total_vars == Cardinality(DOMAIN membership_degrees)
             certainty_sum ==
                 SetSum([v \in DOMAIN membership_degrees |->
                            SetMax({membership_degrees[v][t] :
                                      t \in DOMAIN membership_degrees[v]})],
                        DOMAIN membership_degrees)
             total_activated == Cardinality(DOMAIN activated_rules)
             den == 50 * total_vars * DegreeOne
             num == 25 * total_vars * max_activation
                    + 15 * certainty_sum
                    + 2 * total_vars * DegreeOne * Min2(5, total_activated)
         IN  IF num >= den THEN Rat(1, 1) ELSE Rat(num, den)

\* _calculate_confidence: 0.5 * max_activation + 0.3 * input_certainty
\* + 0.2 * rule_diversity, capped at 1.0, as a fraction over 50 * total_vars
\* * DegreeOne.
CalculateConfidence(activated_rules, membership_degrees) ==
    IF DOMAIN activated_rules = {} THEN RatZero
    ELSE LET max_activation ==
                 SetMax({0} \cup {MaxActivation(activated_rules[t]) :
                                    t \in DOMAIN activated_rules})
             total_vars == Cardinality(DOMAIN membership_degrees)
             certainty_sum ==
                 SetSum([v \in DOMAIN membership_degrees |->
                            SetMax({membership_degrees[v][t] :
                                      t \in DOMAIN membership_degrees[v]})],
                        DOMAIN membership_degrees)
             total_activated ==
                 SetSum([t \in DOMAIN activated_rules |-> Len(activated_rules[t])],
                        DOMAIN activated_rules)
             den == 50 * total_vars * DegreeOne
             num == 25 * total_vars * max_activation
                    + 15 * certainty_sum
                    + 2 * total_vars * DegreeOne * Min2(5, total_activated)
         IN  IF num >= den THEN Rat(1, 1) ELSE Rat(num, den)

\* ------------------------------------------------------------------ explanation

\* sorted(terms.items(), key = degree, reverse = True)[:2], keeping the
\* entries with degree > 0.1.
TopTerms(var, degrees) ==
    LET pairs == [i \in 1..Len(var.terms) |-> <<var.terms[i], degrees[var.terms[i]]>>]
        sorted == SortDesc(pairs, Len(pairs))
    IN  SelectSeq(SubSeq(sorted, 1, Min2(2, Len(sorted))),
                  LAMBDA e : 10 * e[2] > DegreeOne)

\* The consequent terms of the activated-rules dict in insertion order: the
\* order in which the rules first activated them.
RECURSIVE InsertionOrder(_, _, _)
InsertionOrder(rules, activated_rules, seen) ==
    IF rules = <<>> THEN <<>>
    ELSE LET t == rules[1].consequent.linguistic_term
             fired == t \in DOMAIN activated_rules
                      /\ \E i \in 1..Len(activated_rules[t]) :
                            activated_rules[t][i][1] = rules[1].rule_id
         IN  IF fired /\ t \notin seen
             THEN <<t>> \o InsertionOrder(Tail(rules), activated_rules, seen \cup {t})
             ELSE InsertionOrder(Tail(rules), activated_rules, seen)

\* _generate_explanation with get_rule_explanations(top_n = 3): the content
\* of the text, line group by line group (the inputs, per input variable its
\* listed terms, per consequent term its listed rules).
GenerateExplanation(vars, rules, activated_rules, membership_degrees, user_rating, actor_popularity, genre_match) ==
    << <<user_rating, actor_popularity, genre_match>>,
       [i \in 1..Len(InputVariableNames) |->
            <<InputVariableNames[i],
              TopTerms(vars[InputVariableNames[i]],
                       membership_degrees[InputVariableNames[i]])>>],
       LET order == InsertionOrder(rules, activated_rules, {})
       IN  [i \in 1..Len(order) |->
              <<order[i],
                SubSeq(activated_rules[order[i]], 1,
                       Min2(3, Len(activated_rules[order[i]])))>>] >>

\* ---------------------------------------------------------- inference engine

\* An engine is [rule_engine, variables, defuzzification_method,
\* last_recommendation, recommendation_history]; None is <<>> and a present
\* last_recommendation is <<result>>.

\* The result object with the confidence left at 0 when an explanation was
\* generated; C11 fails under it.
MakeResultExplained(vars, method, activated_rules, membership_degrees, explanation) ==
    [recommendation_score |-> DefuzzifyOutput(vars, method, activated_rules),
     confidence_level |-> IF explanation = <<>>
                          THEN CalculateConfidence(activated_rules, membership_degrees)
                          ELSE RatZero,
     activated_rules |-> activated_rules,
     membership_degrees |-> membership_degrees,
     explanation |-> explanation,
     defuzzification_method |-> method]

\* Steps 3 and 4 of recommend_movie and the RecommendationResult it creates.
MakeResult(vars, method, activated_rules, membership_degrees, explanation) ==
    [recommendation_score |-> DefuzzifyOutput(vars, method, activated_rules),
     confidence_level |-> CalculateConfidence(activated_rules, membership_degrees),
     activated_rules |-> activated_rules,
     membership_degrees |-> membership_degrees,
     explanation |-> explanation,
     defuzzification_method |-> method]

\* recommend_movie: the exception raised or the result returned, and the
\* engine after the call.
RecommendMovieCall(engine, user_rating, actor_popularity, genre_match, include_explanation) ==
    IF ValidateInputs(user_rating, actor_popularity, genre_match) # "ok"
    THEN [raised |-> ValidateInputs(user_rating, actor_popularity, genre_match),
          returned |-> <<>>, engine |-> engine]
    ELSE
    LET Finish(membership_degrees, ev, result) ==
            [raised |-> "none", returned |-> <<result>>,
             engine |-> [engine EXCEPT
                            !.rule_engine = ev.rule_engine,
                            !.last_recommendation = <<result>>,
                            !.recommendation_history = Append(@, result)]]
        Result(membership_degrees, ev) ==
            MakeResult(engine.variables, engine.defuzzification_method,
                       ev.activated, membership_degrees,
                       IF include_explanation
                       THEN GenerateExplanation(engine.variables, ev.rule_engine.rules,
                                                ev.activated, membership_degrees,
                                                user_rating, actor_popularity,
                                                genre_match)
                       ELSE <<>>)
        AfterRules(membership_degrees, ev) ==
            IF ev.raised # "none"
            THEN [raised |-> ev.raised, returned |-> <<>>,
                  engine |-> [engine EXCEPT !.rule_engine = ev.rule_engine]]
            ELSE CHOOSE c \in {Finish(membership_degrees, ev, result) :
                               result \in {Result(membership_degrees, ev)}} : TRUE
        AfterFuzzify(membership_degrees) ==
            CHOOSE c \in {AfterRules(membership_degrees, ev) :
                          ev \in {EvaluateAllRules(engine.rule_engine,
                                                   membership_degrees)}} : TRUE
    IN  CHOOSE c \in {AfterFuzzify(membership_degrees) :
                      membership_degrees \in
                          {FuzzifyInputs(engine.variables, user_rating,
                                         actor_popularity, genre_match)}} : TRUE

\* The default result batch_recommend appends when an item raised.
PlaceholderResult(engine, raised) ==
    [recommendation_score |-> RatZero,
     confidence_level |-> RatZero,
     activated_rules |-> <<>>,
     membership_degrees |-> <<>>,
     explanation |-> <<"Error in processing", raised>>,
     defuzzification_method |-> engine.defuzzification_method]

\* The loop of batch_recommend without the try/except around the item: the
\* first failing item ends the loop; C2 fails under it.
RECURSIVE BatchFromAborting(_, _, _, _)
BatchFromAborting(engine, input_data, i, results) ==
    IF i > Len(input_data) THEN [results |-> results, engine |-> engine]
    ELSE CHOOSE b \in
            {IF c.raised = "none"
             THEN BatchFromAborting(c.engine, input_data, i + 1,
                                    Append(results, c.returned[1]))
             ELSE [results |-> results, engine |-> c.engine] :
             c \in {RecommendMovieCall(engine, input_data[i][1], input_data[i][2],
                                       input_data[i][3], FALSE)}} : TRUE

\* The loop of batch_recommend appending the placeholder of a failed item to
\* recommendation_history; C26 fails under it.
RECURSIVE BatchFromRecordingPlaceholders(_, _, _, _)
BatchFromRecordingPlaceholders(engine, input_data, i, results) ==
    IF i > Len(input_data) THEN [results |-> results, engine |-> engine]
    ELSE CHOOSE b \in
            {IF c.raised = "none"
             THEN BatchFromRecordingPlaceholders(c.engine, input_data, i + 1,
                                                 Append(results, c.returned[1]))
             ELSE BatchFromRecordingPlaceholders(
                      [c.engine EXCEPT !.recommendation_history =
                          Append(@, PlaceholderResult(c.engine, c.raised))],
                      input_data, i + 1,
                      Append(results, PlaceholderResult(c.engine, c.raised))) :
             c \in {RecommendMovieCall(engine, input_data[i][1], input_data[i][2],
                                       input_data[i][3], FALSE)}} : TRUE

\* The loop of batch_recommend from item i on.
RECURSIVE BatchFrom(_, _, _, _)
BatchFrom(engine, input_data, i, results) ==
    IF i > Len(input_data) THEN [results |-> results, engine |-> engine]
    ELSE CHOOSE b \in
            {BatchFrom(c.engine, input_data, i + 1,
                       Append(results,
                              IF c.raised = "none" THEN c.returned[1]
                              ELSE PlaceholderResult(c.engine, c.raised))) :
             c \in {RecommendMovieCall(engine, input_data[i][1], input_data[i][2],
                                       input_data[i][3], FALSE)}} : TRUE

\* batch_recommend: the list returned and the engine after the call.
BatchRecommendCall(engine, input_data) ==
    CHOOSE c \in {[raised |-> "none", returned |-> <<b.results>>,
                   engine |-> b.engine] :
                  b \in {BatchFrom(engine, input_data, 1, <<>>)}} : TRUE

\* FuzzyMovieRecommender(defuzzification_method)
NewEngine(method) ==
    [rule_engine |-> InitialRuleEngine,
     variables |-> Variables,
     defuzzification_method |-> method,
     last_recommendation |-> <<>>,
     recommendation_history |-> <<>>]

\* min(f[lo..hi]) of a non-empty range, splitting the range in halves.
RECURSIVE RangeMin(_, _, _)
RangeMin(f, lo, hi) ==
    IF lo = hi THEN f[lo]
    ELSE LET mid == (lo + hi) \div 2
         IN  Min2(RangeMin(f, lo, mid), RangeMin(f, mid + 1, hi))

\* The scaled integers of a variable's universe per unit of the variable.
UniverseScale ==
    [user_rating |-> 20, actor_popularity |-> 2, genre_match |-> 2,
     recommendation |-> 1]

\* get_system_info: min and max of a universe are the floats
\* var.universe.min() and var.universe.max(), here as fractions.
GetSystemInfo(engine) ==
    [total_rules |-> Len(engine.rule_engine.rules),
     variables |-> DOMAIN engine.variables,
     defuzzification_method |-> engine.defuzzification_method,
     recommendation_history_count |-> Len(engine.recommendation_history),
     rule_statistics |-> engine.rule_engine.rule_statistics,
     variable_universes |->
        [name \in DOMAIN engine.variables |->
            [min |-> Rat(RangeMin(engine.variables[name].universe, 1,
                                  Len(engine.variables[name].universe)),
                         UniverseScale[name]),
             max |-> Rat(RangeMax(engine.variables[name].universe, 1,
                                  Len(engine.variables[name].universe)),
                         UniverseScale[name])]]]

\* ------------------------------------------------------------------- bounds

\* Calls made on one engine in a behaviour.
MaxCalls == 2

\* Longest input list handed to batch_recommend.
MaxBatch == 2

\* ------------------------------------------------------------------- inputs

\* Aggregate curves over the output grid, with values in 0..DegreeOne: the
\* all-zero curve, the constant 1, a ramp, single samples of height
\* 1 / DegreeOne and 1 at the ends and the middle of the grid, and the curves
\* the aggregation loop builds when one or two output terms are activated at
\* the levels 0.25 and 1.
ZeroCurve == ArrayOf([i \in 1..Len(RecommendationUniverse) |-> 0])

FullCurve == ArrayOf([i \in 1..Len(RecommendationUniverse) |-> DegreeOne])

RampCurve ==
    ArrayOf([i \in 1..Len(RecommendationUniverse) |->
                (DegreeOne * RecommendationUniverse[i]) \div 100])

SpikeCurve(k, h) ==
    ArrayOf([i \in 1..Len(RecommendationUniverse) |-> IF i = k THEN h ELSE 0])

ClipLevels == {DegreeOne \div 4, DegreeOne}

TermActivations ==
    UNION {[S -> {<< <<0, l>> >> : l \in ClipLevels}] :
           S \in {T \in SUBSET TermSet(Variables.recommendation) :
                     Cardinality(T) \in {1, 2}}}

AggregateCurves ==
    {ZeroCurve, FullCurve, RampCurve}
    \cup {SpikeCurve(k, h) : k \in {1, 51, 101}, h \in {1, DegreeOne}}
    \cup {AggregatedMf(Variables.recommendation, a) : a \in TermActivations}

\* (user_rating, actor_popularity, genre_match) as scaled integers:
\* (8.5, 85, 90), (3.0, 10, 20), (5.5, 10, 10) where no default rule fires,
\* (6.25, 50.5, 65.5) between grid samples, and the out-of-range
\* (0.5, 50, 50), (10.5, 50, 50), (5.0, 100.5, 50), (5.0, 50, -1).
InRangeTriples == {<<170, 170, 180>>, <<60, 20, 40>>, <<110, 20, 20>>, <<125, 101, 131>>}

OutOfRangeTriples == {<<10, 100, 100>>, <<210, 100, 100>>, <<100, 201, 100>>,
                      <<100, 100, -2>>}

InputTriples == InRangeTriples \cup OutOfRangeTriples

BatchTriples == {<<170, 170, 180>>, <<60, 20, 40>>, <<100, 201, 100>>}

RECURSIVE ListsUpTo(_, _)
ListsUpTo(S, n) ==
    IF n = 0 THEN {<<>>}
    ELSE ListsUpTo(S, n - 1) \cup
         {Append(l, e) : l \in {m \in ListsUpTo(S, n - 1) : Len(m) = n - 1}, e \in S}

BatchLists == ListsUpTo(BatchTriples, MaxBatch)

\* Arguments of add_rule: an OR rule with a negated antecedent, a rule whose
\* antecedent names no term of its variable, a rule whose consequent names no
\* term of the output variable, a rule with the operator NOT, and rules with
\* an id of the default rule base, no antecedent, or a confidence of 1.2 or
\* -0.1.
CandidateRules ==
    { Rule(16, <<NotCond("user_rating", "low"), Cond("genre_match", "moderate")>>,
           Cond("recommendation", "recommended"), "OR", 5),
      Rule(17, <<Cond("user_rating", "superb")>>,
           Cond("recommendation", "recommended"), "AND", 10),
      Rule(18, <<Cond("user_rating", "medium")>>,
           Cond("recommendation", "must_see"), "AND", 10),
      Rule(19, <<Cond("user_rating", "high")>>,
           Cond("recommendation", "recommended"), "NOT", 10),
      Rule(3, <<Cond("user_rating", "medium")>>,
           Cond("recommendation", "recommended"), "AND", 10),
      Rule(20, <<>>, Cond("recommendation", "recommended"), "AND", 10),
      Rule(21, <<Cond("user_rating", "medium")>>,
           Cond("recommendation", "recommended"), "AND", 12),
      Rule(22, <<Cond("user_rating", "medium")>>,
           Cond("recommendation", "recommended"), "AND", -1) }

\* -------------------------------------------------------------------- state

VARIABLES
    rule_engine,             \* FuzzyRuleEngine: [rules, rule_statistics]
    variables,               \* FuzzyMovieRecommender.variables
    defuzzification_method,  \* FuzzyMovieRecommender.defuzzification_method
    last_recommendation,     \* <<>> (None) or <<result>>
    recommendation_history,  \* list of results
    call_log,                \* the calls made so far, with what each returned
    aggregated_mf,           \* the aggregate curve handed to defuzzification
    crisp,                   \* <<>> or [method, value]: the crisp value computed
    threads,                 \* the locals of each concurrent recommend_movie call
    running,                 \* the thread that took the last step, or "none"
    preemptions,             \* switches made away from a thread inside an update
    library_call,            \* <<>> or a call of the membership function library
    app                      \* <<>> or ModernFuzzyApp: [loaded, recommendation_history]

vars == <<rule_engine, variables, defuzzification_method, last_recommendation,
          recommendation_history, call_log, aggregated_mf, crisp, threads,
          running, preemptions, library_call, app>>

Engine ==
    [rule_engine |-> rule_engine,
     variables |-> variables,
     defuzzification_method |-> defuzzification_method,
     last_recommendation |-> last_recommendation,
     recommendation_history |-> recommendation_history]

\* One entry of call_log: the operation, its arguments, the rule base it
\* ran on, the exception it raised ("none" if it returned) and, in a
\* sequence of length at most one, the value it returned.
Call(op, args, c) ==
    [op |-> op, args |-> args, rules |-> rule_engine.rules,
     raised |-> c.raised, returned |-> c.returned]

\* The engine after a call, and the call appended to the log.
Becomes(e, call) ==
    /\ rule_engine' = e.rule_engine
    /\ variables' = e.variables
    /\ defuzzification_method' = e.defuzzification_method
    /\ last_recommendation' = e.last_recommendation
    /\ recommendation_history' = e.recommendation_history
    /\ call_log' = Append(call_log, call)
    /\ UNCHANGED <<aggregated_mf, crisp, threads, running, preemptions,
                   library_call, app>>

\* No library call is on record.
NoLibraryCall == library_call = <<>>

\* No application is running.
NoApp == app = <<>>

\* No concurrent call is in progress.
NoThreads ==
    /\ threads = <<>>
    /\ running = "none"
    /\ preemptions = 0

\* The engine after FuzzyMovieRecommender(method), no call made yet.
Constructed(method) ==
    /\ rule_engine = NewEngine(method).rule_engine
    /\ variables = NewEngine(method).variables
    /\ defuzzification_method = NewEngine(method).defuzzification_method
    /\ last_recommendation = NewEngine(method).last_recommendation
    /\ recommendation_history = NewEngine(method).recommendation_history
    /\ call_log = <<>>

Init ==
    /\ \E method \in DefuzzificationMethods : Constructed(method)
    /\ aggregated_mf = <<>>
    /\ crisp = <<>>
    /\ NoThreads
    /\ NoLibraryCall
    /\ NoApp

RecommendMovie ==
    \E tr \in InputTriples, include_explanation \in BOOLEAN :
        /\ Len(call_log) < MaxCalls
        /\ \E c \in {RecommendMovieCall(Engine, tr[1], tr[2], tr[3],
                                         include_explanation)} :
               Becomes(c.engine,
                       Call("recommend_movie", <<tr, include_explanation>>, c))

BatchRecommend ==
    \E input_data \in BatchLists :
        /\ Len(call_log) < MaxCalls
        /\ \E c \in {BatchRecommendCall(Engine, input_data)} :
               Becomes(c.engine, Call("batch_recommend", <<input_data>>, c))

AddRule ==
    \E rule \in CandidateRules :
        /\ Len(call_log) < MaxCalls
        /\ \E c \in {AddRuleCall(rule_engine, rule)} :
               Becomes([Engine EXCEPT !.rule_engine = c.rule_engine],
                       Call("add_rule", <<rule>>,
                            [raised |-> c.raised, returned |-> <<>>]))

CreateMovieRecommendationRules ==
    /\ Len(call_log) < MaxCalls
    /\ \E c \in {CreateMovieRecommendationRulesCall(rule_engine)} :
           Becomes([Engine EXCEPT !.rule_engine = c.rule_engine],
                   Call("create_movie_recommendation_rules", <<>>,
                        [raised |-> c.raised, returned |-> <<>>]))

Next ==
    \/ RecommendMovie
    \/ BatchRecommend
    \/ AddRule
    \/ CreateMovieRecommendationRules

Spec == Init /\ [][Next]_vars

\* ------------------------------------------- defuzzification of a given curve

InitDefuzz ==
    /\ \E method \in DefuzzificationMethods : Constructed(method)
    /\ aggregated_mf \in AggregateCurves
    /\ crisp = <<>>
    /\ NoThreads
    /\ NoLibraryCall
    /\ NoApp

\* One defuzzification method applied to the curve drawn.
Defuzzified(method, value) ==
    /\ crisp = <<>>
    /\ crisp' = [method |-> method, value |-> value]
    /\ UNCHANGED <<rule_engine, variables, defuzzification_method,
                   last_recommendation, recommendation_history, call_log,
                   aggregated_mf, threads, running, preemptions, library_call,
                   app>>

Centroid ==
    Defuzzified("centroid",
                CentroidDefuzzification(variables.recommendation.universe,
                                        aggregated_mf))

Bisector ==
    Defuzzified("bisector",
                BisectorDefuzzification(variables.recommendation.universe,
                                        aggregated_mf))

Mom ==
    Defuzzified("mean_of_maximum",
                MomDefuzzification(variables.recommendation.universe, aggregated_mf))

Som ==
    Defuzzified("smallest_of_maximum",
                SomDefuzzification(variables.recommendation.universe, aggregated_mf))

Lom ==
    Defuzzified("largest_of_maximum",
                LomDefuzzification(variables.recommendation.universe, aggregated_mf))

\* _defuzzify_output on the rules an in-range triple activates, with the
\* method the engine is configured with: the score recommend_movie returns.
DefuzzifyOutputStep ==
    \E tr \in InRangeTriples :
    \E activated \in {EvaluateAllRules(rule_engine,
                          FuzzifyInputs(variables, tr[1], tr[2], tr[3])).activated} :
        /\ crisp = <<>>
        /\ aggregated_mf' = AggregatedMf(variables.recommendation, activated)
        /\ crisp' = [method |-> defuzzification_method,
                     value |-> DefuzzifyOutput(variables, defuzzification_method,
                                               activated)]
        /\ UNCHANGED <<rule_engine, variables, defuzzification_method,
                       last_recommendation, recommendation_history, call_log,
                       threads, running, preemptions, library_call, app>>

NextDefuzz == Centroid \/ Bisector \/ Mom \/ Som \/ Lom \/ DefuzzifyOutputStep

SpecDefuzz == InitDefuzz /\ [][NextDefuzz]_vars

\* ------------------------------------------- concurrent recommend_movie calls

\* recommend_movie(triple, include_explanation = False) called by each of two
\* threads on one engine, with no lock.  A step of a thread runs its code up
\* to and including its next access to the shared engine state.  The three
\* statements of _update_rule_statistics, each a read-modify-write of the
\* statistics entry of the rule, are one read of the entry (with the
\* evaluation of the rule before it) and one write of it; between the two the
\* thread is inside the update.  A behaviour switches away from a thread that
\* is inside an update at most MaxPreemptions times; it switches freely
\* anywhere else.
Threads == {"t1", "t2"}

MaxPreemptions == 1

\* (8.5, 85, 90), (3.0, 10, 20) and the out-of-range (0.5, 50, 50).
ConcTriples == {<<170, 170, 180>>, <<60, 20, 40>>, <<10, 100, 100>>}

\* The locals of a call that has not started.
Called(triple) ==
    [pc |-> "called", triple |-> triple, membership_degrees |-> <<>>,
     i |-> 1, activation_strength |-> 0, stats |-> ZeroStatistics,
     consequent_activations |-> <<>>, raised |-> "none", result |-> <<>>]

\* The engine is the one FuzzyMovieRecommender() constructs: the default
\* method, DefuzzificationMethod.CENTROID.
InitConc ==
    /\ Constructed("centroid")
    /\ aggregated_mf = <<>>
    /\ crisp = <<>>
    /\ threads \in [Threads -> {Called(tr) : tr \in ConcTriples}]
    /\ running = "none"
    /\ preemptions = 0
    /\ NoLibraryCall
    /\ NoApp

InsideUpdate(t) == threads[t].pc = "update"

\* Thread t takes the next step.
Scheduled(t) ==
    /\ (running \notin {"none", t} /\ InsideUpdate(running))
            => preemptions < MaxPreemptions
    /\ preemptions' = IF running \notin {"none", t} /\ InsideUpdate(running)
                      THEN preemptions + 1 ELSE preemptions
    /\ running' = t
    /\ UNCHANGED <<variables, defuzzification_method, call_log, aggregated_mf,
                   crisp, library_call, app>>

\* fuzzify_inputs: validation and fuzzification, on locals and the catalog.
Fuzzify(t) ==
    /\ threads[t].pc = "called"
    /\ Scheduled(t)
    /\ \E tr \in {threads[t].triple} :
          IF ValidateInputs(tr[1], tr[2], tr[3]) # "ok"
          THEN threads' = [threads EXCEPT
                             ![t].pc = "raised",
                             ![t].raised = ValidateInputs(tr[1], tr[2], tr[3])]
          ELSE threads' = [threads EXCEPT
                             ![t].pc = "evaluate",
                             ![t].membership_degrees =
                                 FuzzifyInputs(variables, tr[1], tr[2], tr[3])]
    /\ UNCHANGED <<rule_engine, last_recommendation, recommendation_history>>

\* evaluate_rule on rule i up to the read of the rule's statistics entry in
\* _update_rule_statistics.  A rule that returns before the update (a missing
\* membership, or no statistics entry) is done in this step; a raising rule
\* ends the call.
EvaluateRuleStep(t) ==
    /\ threads[t].pc = "evaluate"
    /\ threads[t].i <= Len(rule_engine.rules)
    /\ Scheduled(t)
    /\ \E rule \in {rule_engine.rules[threads[t].i]} :
       \E r \in {EvaluateRule(rule, threads[t].membership_degrees,
                              rule_engine.rule_statistics)} :
          IF r.raised # "none"
          THEN threads' = [threads EXCEPT ![t].pc = "raised",
                                          ![t].raised = r.raised]
          ELSE IF r.rule_statistics = rule_engine.rule_statistics
          THEN threads' = [threads EXCEPT
                             ![t].i = @ + 1,
                             ![t].consequent_activations =
                                 RecordActivation(@, rule, r.strength)]
          ELSE threads' = [threads EXCEPT
                             ![t].pc = "update",
                             ![t].activation_strength = r.strength,
                             ![t].stats = rule_engine.rule_statistics[rule.rule_id]]
    /\ UNCHANGED <<rule_engine, last_recommendation, recommendation_history>>

\* The write of _update_rule_statistics, from the entry read before, and the
\* rest of the loop body of evaluate_all_rules.
UpdateRuleStatisticsStep(t) ==
    /\ threads[t].pc = "update"
    /\ Scheduled(t)
    /\ \E rule \in {rule_engine.rules[threads[t].i]} :
          /\ rule_engine' =
                [rule_engine EXCEPT !.rule_statistics[rule.rule_id] =
                    UpdateRuleStatistics(rule.rule_id :> threads[t].stats,
                                         rule.rule_id,
                                         threads[t].activation_strength)[rule.rule_id]]
          /\ threads' = [threads EXCEPT
                           ![t].pc = "evaluate",
                           ![t].i = @ + 1,
                           ![t].consequent_activations =
                               RecordActivation(@, rule,
                                                threads[t].activation_strength)]
    /\ UNCHANGED <<last_recommendation, recommendation_history>>

\* After the loop: the sort, defuzzification, confidence, the result object
\* and the assignment to last_recommendation.
StoreLastRecommendation(t) ==
    /\ threads[t].pc = "evaluate"
    /\ threads[t].i > Len(rule_engine.rules)
    /\ Scheduled(t)
    /\ \E result \in {MakeResult(variables, defuzzification_method,
                                 SortActivations(threads[t].consequent_activations),
                                 threads[t].membership_degrees, <<>>)} :
          /\ last_recommendation' = <<result>>
          /\ threads' = [threads EXCEPT ![t].pc = "append",
                                        ![t].result = <<result>>]
    /\ UNCHANGED <<rule_engine, recommendation_history>>

\* recommendation_history.append(result) and the return.
AppendToHistory(t) ==
    /\ threads[t].pc = "append"
    /\ Scheduled(t)
    /\ recommendation_history' = Append(recommendation_history, threads[t].result[1])
    /\ threads' = [threads EXCEPT ![t].pc = "done"]
    /\ UNCHANGED <<rule_engine, last_recommendation>>

NextConc ==
    \E t \in Threads :
        \/ Fuzzify(t)
        \/ EvaluateRuleStep(t)
        \/ UpdateRuleStatisticsStep(t)
        \/ StoreLastRecommendation(t)
        \/ AppendToHistory(t)

SpecConc == InitConc /\ [][NextConc]_vars

\* --------------------------------------- calls of the membership function library

\* triangular_mf(x, (a, b, c)) on the grid 0, 1, ..., 10 with every a, b, c
\* drawn from 1, 3, 5, 9, ordered or not.
TriangularGrid == [i \in 1..11 |-> i - 1]

TriangularParams == {1, 3, 5, 9} \X {1, 3, 5, 9} \X {1, 3, 5, 9}

\* trapezoidal_mf(x, (a, b, c, d)) on the grid -10, 0, ..., 90 with every
\* a, b, c, d drawn from 0, 20, 60, 80, ordered or not.
TrapezoidalGrid == [i \in 1..11 |-> 10 * (i - 2)]

TrapezoidalParams == {0, 20, 60, 80} \X {0, 20, 60, 80} \X {0, 20, 60, 80} \X {0, 20, 60, 80}

\* calculate_membership_degree(x_val, x_universe, mf_values) on the grids
\* (0, 2, 4) and (2, 6), with every sample 0, 0.5 or 1 and x_val from below
\* the grid to above it, grid values and values between them included.
InterpolationGrids == {<<0, 2, 4>>, <<2, 6>>}

InterpolationSamples == {0, DegreeOne \div 2, DegreeOne}

InterpolationValues == (0 - 1)..7

\* A call of the library that has not run yet.
Pending(op, args) ==
    [op |-> op, args |-> args, done |-> FALSE, raised |-> "none", returned |-> <<>>]

LibraryCalls ==
    {Pending("triangular_mf", <<TriangularGrid, p>>) : p \in TriangularParams}
    \cup {Pending("trapezoidal_mf", <<TrapezoidalGrid, p>>) : p \in TrapezoidalParams}
    \cup UNION {{Pending("calculate_membership_degree", <<v, u, mf>>) :
                    v \in InterpolationValues,
                    mf \in [1..Len(u) -> InterpolationSamples]} :
                u \in InterpolationGrids}

InitLibrary ==
    /\ Constructed("centroid")
    /\ aggregated_mf = <<>>
    /\ crisp = <<>>
    /\ NoThreads
    /\ NoApp
    /\ library_call \in LibraryCalls

\* The pending call ran: it raised or returned.
Ran(c) ==
    /\ ~library_call.done
    /\ library_call' = [library_call EXCEPT !.done = TRUE, !.raised = c.raised,
                                            !.returned = c.returned]
    /\ UNCHANGED <<rule_engine, variables, defuzzification_method,
                   last_recommendation, recommendation_history, call_log,
                   aggregated_mf, crisp, threads, running, preemptions, app>>

TriangularMfCall ==
    /\ library_call.op = "triangular_mf"
    /\ \E c \in {TriangularMf(library_call.args[1], library_call.args[2])} : Ran(c)

TrapezoidalMfCall ==
    /\ library_call.op = "trapezoidal_mf"
    /\ \E c \in {TrapezoidalMf(library_call.args[1], library_call.args[2])} : Ran(c)

CalculateMembershipDegreeCall ==
    /\ library_call.op = "calculate_membership_degree"
    /\ \E degree \in {CalculateMembershipDegree(library_call.args[1],
                                                library_call.args[2],
                                                library_call.args[3])} :
          Ran([raised |-> "none", returned |-> <<degree>>])

NextLibrary == TriangularMfCall \/ TrapezoidalMfCall \/ CalculateMembershipDegreeCall

SpecLibrary == InitLibrary /\ [][NextLibrary]_vars

\* ------------------------------------- the history of the application (main.py)

\* ModernFuzzyApp keeps its own recommendation_history, a list of entries
\* [timestamp, inputs, output, movie]: __init__ loads it from the history
\* file, _add_to_history appends to it.  timestamp is the reading of the clock
\* (datetime.now()), here the number of the call; the entries loaded carry the
\* readings of earlier runs, 0 and below.
HistoryLimit == 100

MaxAdds == 5

\* The entry _add_to_history builds.
Entry(now, inputs, output, movie_title) ==
    [timestamp |-> now, inputs |-> inputs, output |-> output, movie |-> movie_title]

\* _add_to_history dropping the newest entries of a list that grew beyond the
\* limit (recommendation_history[:100]); C30 fails under it.
AddToHistoryCallKeepingOldest(history, now, inputs, output, movie_title) ==
    LET appended == Append(history, Entry(now, inputs, output, movie_title))
    IN  IF Len(appended) > HistoryLimit
        THEN SubSeq(appended, 1, HistoryLimit)
        ELSE appended

\* _add_to_history: the append, then recommendation_history[-100:] when the
\* list holds more than 100 entries.
AddToHistoryCall(history, now, inputs, output, movie_title) ==
    LET appended == Append(history, Entry(now, inputs, output, movie_title))
    IN  IF Len(appended) > HistoryLimit
        THEN SubSeq(appended, Len(appended) - HistoryLimit + 1, Len(appended))
        ELSE appended

\* What _load_history returns: the list a former run saved, n entries of the
\* single-recommendation screen (no movie title), of at most 100 entries
\* since a run saves the list _add_to_history left.
Loaded(n) ==
    [i \in 1..n |->
        Entry(i - n,
              [user_rating |-> 110, actor_popularity |-> 20, genre_match |-> 20],
              Rat(50, 1), "None")]

LoadedLengths == {0, HistoryLimit - 2, HistoryLimit - 1, HistoryLimit}

\* The arguments of the two call sites: the single-recommendation screen
\* (the inputs and result.recommendation_score, no title) and the
\* preference search (the top movie with its score).
AddToHistoryArguments ==
    {<<[user_rating |-> 170, actor_popularity |-> 170, genre_match |-> 180],
       Rat(8270, 89), "None">>,
     <<[user_rating |-> 140, preferred_genres |-> <<"Drama">>,
        actor_popularity |-> 100, genre_match |-> 140],
       Rat(70, 1), "Inception">>}

\* ModernFuzzyApp(): a new engine and the history loaded from the file.
InitApp ==
    /\ Constructed("centroid")
    /\ aggregated_mf = <<>>
    /\ crisp = <<>>
    /\ NoThreads
    /\ NoLibraryCall
    /\ \E n \in LoadedLengths :
          app = [loaded |-> Loaded(n), recommendation_history |-> Loaded(n)]

AddToHistory ==
    \E a \in AddToHistoryArguments :
        /\ Len(call_log) < MaxAdds
        /\ app' = [app EXCEPT !.recommendation_history =
                      AddToHistoryCall(@, Len(call_log) + 1, a[1], a[2], a[3])]
        /\ call_log' = Append(call_log,
                              Call("_add_to_history", a,
                                   [raised |-> "none", returned |-> <<>>]))
        /\ UNCHANGED <<rule_engine, variables, defuzzification_method,
                       last_recommendation, recommendation_history,
                       aggregated_mf, crisp, threads, running, preemptions,
                       library_call>>

NextApp == AddToHistory

SpecApp == InitApp /\ [][NextApp]_vars

\* ------------------------------------------------------------------ properties

\* The declared ranges: user_rating in [1, 10], actor_popularity and
\* genre_match in [0, 100].
InDeclaredRange(tr) ==
    /\ 20 <= tr[1] /\ tr[1] <= 200
    /\ 0 <= tr[2] /\ tr[2] <= 200
    /\ 0 <= tr[3] /\ tr[3] <= 200

\* The call a step made: the entry it appended to call_log.
LastCall(log) == log[Len(log)]

\* The placeholder of batch_recommend as the specification describes it.
IsPlaceholder(r) ==
    /\ r.recommendation_score = RatZero
    /\ r.confidence_level = RatZero
    /\ DOMAIN r.activated_rules = {}
    /\ DOMAIN r.membership_degrees = {}

\* Every recommend_movie invocation on record: the direct calls and, since
\* batch_recommend calls recommend_movie per item, the items of the batches.
\* result holds what the invocation produced (nothing if a direct call
\* raised).
Invocations(log) ==
    {[at |-> <<i, 0>>, triple |-> log[i].args[1], rules |-> log[i].rules,
      result |-> log[i].returned] :
        i \in {j \in 1..Len(log) : log[j].op = "recommend_movie"}}
    \cup
    UNION {{[at |-> <<i, k>>, triple |-> log[i].args[1][k], rules |-> log[i].rules,
             result |-> <<log[i].returned[1][k]>>] :
                k \in 1..Len(log[i].args[1])} :
           i \in {j \in 1..Len(log) : log[j].op = "batch_recommend"}}

\* C1: a recommend_movie call with an input outside its declared range raises
\* a range error (ValueError) and returns no result, and the rule base, the
\* usage statistics, last_recommendation and recommendation_history are
\* exactly as before the call.
C1_RangeErrorLeavesState ==
    [][LET call == LastCall(call_log')
       IN  (call.op = "recommend_movie" /\ ~InDeclaredRange(call.args[1]))
           => /\ call.raised = "ValueError"
              /\ call.returned = <<>>
              /\ UNCHANGED <<rule_engine, last_recommendation,
                             recommendation_history>>]_vars

\* An out-of-range recommend_movie call was made on an engine that had
\* already recommended, and raised.
C1_Witness ==
    /\ Len(call_log) >= 2
    /\ LastCall(call_log).op = "recommend_movie"
    /\ ~InDeclaredRange(LastCall(call_log).args[1])
    /\ LastCall(call_log).raised = "ValueError"
    /\ recommendation_history # <<>>

\* C2: batch_recommend returns, for a list of N triples, a list of exactly N
\* results in input order; result i is what recommend_movie without
\* explanation returns for triple i when that call returns, and a placeholder
\* (score 0, confidence 0, empty fired-rule and membership maps) when it
\* fails, as it does for every out-of-range triple; no item aborts the batch.
C2_BatchResults ==
    [][LET call == LastCall(call_log')
       IN  call.op = "batch_recommend"
           => /\ call.raised = "none"
              /\ Len(call.returned[1]) = Len(call.args[1])
              /\ \A i \in 1..Len(call.args[1]) :
                    \A tr \in {call.args[1][i]} :
                    \A alone \in {RecommendMovieCall(Engine, tr[1], tr[2], tr[3], FALSE)} :
                        /\ alone.raised = "none"
                            => call.returned[1][i] = alone.returned[1]
                        /\ alone.raised # "none"
                            => IsPlaceholder(call.returned[1][i])
                        /\ ~InDeclaredRange(tr)
                            => IsPlaceholder(call.returned[1][i])]_vars

\* A batch of two whose first item failed and whose second item was scored.
C2_Witness ==
    \E i \in 1..Len(call_log) :
        /\ call_log[i].op = "batch_recommend"
        /\ Len(call_log[i].returned[1]) = 2
        /\ ~InDeclaredRange(call_log[i].args[1][1])
        /\ IsPlaceholder(call_log[i].returned[1][1])
        /\ call_log[i].returned[1][2].recommendation_score # RatZero

\* C3: two recommend_movie invocations with the same inputs on the same rule
\* base return identical score, confidence and fired-rule lists, whatever
\* recommend_movie or batch_recommend calls happened between them.
C3_Idempotent ==
    \A a, b \in Invocations(call_log) :
        (a.triple = b.triple /\ a.rules = b.rules
         /\ a.result # <<>> /\ b.result # <<>>)
        => /\ a.result[1].recommendation_score = b.result[1].recommendation_score
           /\ a.result[1].confidence_level = b.result[1].confidence_level
           /\ a.result[1].activated_rules = b.result[1].activated_rules

\* The same in-range triple was scored twice, with an invocation for another
\* in-range triple, which updated the statistics and the history, in between.
C3_Witness ==
    \E a, b, c \in Invocations(call_log) :
        /\ a.at = <<1, 0>> /\ c.at = <<2, 1>> /\ b.at = <<2, 2>>
        /\ a.triple = b.triple /\ a.triple # c.triple
        /\ InDeclaredRange(c.triple)
        /\ a.result # <<>>
        /\ a.result[1].recommendation_score # RatZero
        /\ c.result[1].recommendation_score # RatZero

\* Every rule of the rule base evaluates to a firing strength of 0 on the
\* fuzzified triple.
NoRuleFires(rules, tr) ==
    \A i \in 1..Len(rules) :
        LET r == EvaluateRule(rules[i],
                              FuzzifyInputs(variables, tr[1], tr[2], tr[3]), <<>>)
        IN  r.raised = "none" /\ r.strength = 0

\* C4: when no rule has a positive firing strength for an in-range triple,
\* recommend_movie does not raise and returns score 0, confidence 0 and an
\* empty fired-rule map.
C4_NoRuleFired ==
    \A i \in 1..Len(call_log) :
        (/\ call_log[i].op = "recommend_movie"
         /\ InDeclaredRange(call_log[i].args[1])
         /\ NoRuleFires(call_log[i].rules, call_log[i].args[1]))
        => /\ call_log[i].raised = "none"
           /\ call_log[i].returned[1].recommendation_score = RatZero
           /\ call_log[i].returned[1].confidence_level = RatZero
           /\ DOMAIN call_log[i].returned[1].activated_rules = {}

\* recommend_movie returned for the medium rating with unknown actors and a
\* poor genre match, (5.5, 10, 10), on which no default rule fires.
C4_Witness ==
    \E i \in 1..Len(call_log) :
        /\ call_log[i].op = "recommend_movie"
        /\ call_log[i].args[1] = <<110, 20, 20>>
        /\ NoRuleFires(call_log[i].rules, call_log[i].args[1])
        /\ call_log[i].raised = "none"
        /\ DOMAIN call_log[i].returned[1].membership_degrees # {}


\* C5: each of the five defuzzification methods returns, for every aggregate
\* curve with values in [0, 1] over the grid 0..100, a value within [0, 100],
\* and exactly 0 for the all-zero curve; so does _defuzzify_output, whose
\* value is the score of recommend_movie.
C5_DefuzzifiedInRange ==
    crisp # <<>>
    => /\ RatLeq(RatZero, crisp.value)
       /\ RatLeq(crisp.value, Rat(100, 1))
       /\ (\A i \in 1..Len(aggregated_mf) : aggregated_mf[i] = 0)
            => crisp.value = RatZero

\* The bisector method, which divides the total area, was applied to the
\* all-zero curve.
C5_Witness ==
    /\ crisp # <<>>
    /\ crisp.method = "bisector"
    /\ aggregated_mf = ZeroCurve

\* C6: the confidence_level of the result recommend_movie returns for an
\* in-range triple lies within [0, 1].
C6_ConfidenceInUnitInterval ==
    \A a \in Invocations(call_log) :
        (InDeclaredRange(a.triple) /\ a.result # <<>>)
        => /\ RatLeq(RatZero, a.result[1].confidence_level)
           /\ RatLeq(a.result[1].confidence_level, Rat(1, 1))

\* recommend_movie returned a confidence strictly between 0 and 1 for
\* (8.5, 85, 90).
C6_Witness ==
    \E a \in Invocations(call_log) :
        /\ a.triple = <<170, 170, 180>>
        /\ a.result # <<>>
        /\ a.result[1].confidence_level # RatZero
        /\ a.result[1].confidence_level # Rat(1, 1)
        /\ DOMAIN a.result[1].activated_rules # {}

\* Every term a rule names is a term of the variable it names.
KnownTerm(c) ==
    /\ c.variable_name \in DOMAIN variables
    /\ c.linguistic_term \in TermSet(variables[c.variable_name])

\* C7: every term referenced by a rule of the rule base, in an antecedent or
\* in the consequent, exists in the term set of its variable (add_rule would
\* fail on a rule naming an unknown term).
C7_TermsExist ==
    \A i \in 1..Len(rule_engine.rules) :
        /\ KnownTerm(rule_engine.rules[i].consequent)
        /\ \A k \in 1..Len(rule_engine.rules[i].antecedents) :
              KnownTerm(rule_engine.rules[i].antecedents[k])

\* The rule base add_rule must maintain: pairwise distinct ids, at least one
\* antecedent per rule, every confidence in [0, 1].
ValidRuleBase(rules) ==
    /\ \A i, j \in 1..Len(rules) : rules[i].rule_id = rules[j].rule_id => i = j
    /\ \A i \in 1..Len(rules) :
          /\ rules[i].antecedents # <<>>
          /\ 0 <= rules[i].confidence /\ rules[i].confidence <= 10

\* C8: add_rule raises for a rule whose id is in the rule base, whose
\* confidence is outside [0, 1] or which has no antecedent, and then leaves
\* the rule list and the usage statistics unchanged; after every add_rule
\* call the ids are pairwise distinct and every rule has an antecedent and a
\* confidence in [0, 1].
C8_AddRuleRejects ==
    [][LET call == LastCall(call_log')
       IN  call.op = "add_rule"
           => /\ (\/ call.args[1].rule_id \in RuleIds(rule_engine.rules)
                  \/ call.args[1].confidence < 0
                  \/ call.args[1].confidence > 10
                  \/ call.args[1].antecedents = <<>>)
                 => (call.raised = "ValueError" /\ UNCHANGED rule_engine)
              /\ call.raised # "none" => UNCHANGED rule_engine
              /\ ValidRuleBase(rule_engine'.rules)]_vars

\* add_rule raised on a rule base that an earlier add_rule had extended.
C8_Witness ==
    /\ Len(call_log) >= 2
    /\ call_log[1].op = "add_rule" /\ call_log[1].raised = "none"
    /\ LastCall(call_log).op = "add_rule"
    /\ LastCall(call_log).raised = "ValueError"
    /\ Len(rule_engine.rules) = Len(DefaultRules) + 1

\* C9: a recommend_movie or batch_recommend call changes neither the rule
\* base nor the variable catalog nor the configured defuzzification method.
C9_InferenceFrame ==
    [][LastCall(call_log').op \in {"recommend_movie", "batch_recommend"}
       => /\ rule_engine'.rules = rule_engine.rules
          /\ DOMAIN rule_engine'.rule_statistics = DOMAIN rule_engine.rule_statistics
          /\ UNCHANGED <<variables, defuzzification_method>>]_vars

\* A batch scored an item on a rule base extended by add_rule, and the usage
\* statistics changed.
C9_Witness ==
    /\ Len(call_log) >= 2
    /\ call_log[1].op = "add_rule" /\ call_log[1].raised = "none"
    /\ LastCall(call_log).op = "batch_recommend"
    /\ recommendation_history # <<>>
    /\ \E id \in DOMAIN rule_engine.rule_statistics :
          rule_engine.rule_statistics[id].activation_count > 0


\* What the call of thread t returns when it runs alone on the engine as
\* constructed.
Alone(t) ==
    RecommendMovieCall(NewEngine(defuzzification_method), threads[t].triple[1],
                       threads[t].triple[2], threads[t].triple[3], FALSE)

\* C10: under every interleaving of concurrent recommend_movie calls on one
\* engine, a call that has finished returned the score, confidence and
\* fired-rule lists it returns when run alone (and raised if it raises alone).
C10_ConcurrentResults ==
    \A t \in DOMAIN threads :
        threads[t].pc \in {"done", "raised"}
        => \A alone \in {Alone(t)} :
              /\ threads[t].raised = alone.raised
              /\ threads[t].pc = "done"
                 => /\ threads[t].result[1].recommendation_score
                         = alone.returned[1].recommendation_score
                    /\ threads[t].result[1].confidence_level
                         = alone.returned[1].confidence_level
                    /\ threads[t].result[1].activated_rules
                         = alone.returned[1].activated_rules

\* Both calls returned, for different in-range triples, after one of them was
\* preempted inside a statistics update.
C10_Witness ==
    /\ DOMAIN threads = Threads
    /\ \A t \in Threads : threads[t].pc = "done"
    /\ threads["t1"].triple # threads["t2"].triple
    /\ preemptions > 0
    /\ threads["t1"].result[1].recommendation_score # RatZero


\* A result with the explanation text left out.
WithoutExplanation(result) == [result EXCEPT !.explanation = <<>>]

\* An engine with the explanation text of every stored result left out.
WithoutExplanations(engine) ==
    [engine EXCEPT
        !.last_recommendation =
            [i \in 1..Len(@) |-> WithoutExplanation(@[i])],
        !.recommendation_history =
            [i \in 1..Len(@) |-> WithoutExplanation(@[i])]]

\* C11: recommend_movie with include_explanation true and with
\* include_explanation false, on the same inputs and the same engine, raise
\* alike, return the same score, confidence, fired rules and membership map,
\* and leave the same engine state (rule base, usage statistics,
\* last_recommendation, history) up to the explanation text of the result,
\* which is empty when the flag is false and not empty when it is true.
C11_ExplanationIsPresentationOnly ==
    [][LET call == LastCall(call_log')
       IN  call.op = "recommend_movie"
           => \A tr \in {call.args[1]} :
              \A other \in {RecommendMovieCall(Engine, tr[1], tr[2], tr[3],
                                               ~call.args[2])} :
                 /\ other.raised = call.raised
                 /\ WithoutExplanations(other.engine) = WithoutExplanations(Engine')
                 /\ call.raised = "none"
                    => /\ WithoutExplanation(other.returned[1])
                            = WithoutExplanation(call.returned[1])
                       /\ (call.returned[1].explanation = <<>>) <=> ~call.args[2]
                       /\ (other.returned[1].explanation = <<>>) <=> call.args[2]]_vars

\* recommend_movie returned with an explanation, on an engine with a
\* recommendation in its history, for a triple that fires rules.
C11_Witness ==
    /\ Len(call_log) >= 2
    /\ LastCall(call_log).op = "recommend_movie"
    /\ LastCall(call_log).args[2]
    /\ LastCall(call_log).raised = "none"
    /\ LastCall(call_log).returned[1].explanation # <<>>
    /\ DOMAIN LastCall(call_log).returned[1].activated_rules # {}
    /\ Len(recommendation_history) >= 2

\* The largest maximum the behaviours of the model can tell from no maximum:
\* one less than the invocations that MaxCalls calls on lists of MaxBatch
\* triples make.  A history bounded by any smaller maximum is bounded by it.
HistoryMaximum == MaxCalls * MaxBatch - 1

\* C12: the recommendation history is bounded: its length never exceeds a
\* fixed maximum, whatever recommend_movie and batch_recommend calls are
\* made.
C12_HistoryBounded == Len(recommendation_history) <= HistoryMaximum

\* The declared range of every variable: user_rating [1, 10],
\* actor_popularity [0, 100], genre_match [0, 100], recommendation [0, 100].
DeclaredRanges ==
    [user_rating      |-> [min |-> Rat(1, 1), max |-> Rat(10, 1)],
     actor_popularity |-> [min |-> Rat(0, 1), max |-> Rat(100, 1)],
     genre_match      |-> [min |-> Rat(0, 1), max |-> Rat(100, 1)],
     recommendation   |-> [min |-> Rat(0, 1), max |-> Rat(100, 1)]]

\* C13: for each of the four variables the universe of the catalog, as
\* get_system_info reports it (smallest and largest grid value), is the
\* declared range of the variable: user_rating [1, 10], actor_popularity
\* [0, 100], genre_match [0, 100], recommendation [0, 100].
C13_UniversesAreDeclaredRanges ==
    GetSystemInfo(Engine).variable_universes = DeclaredRanges

\* The engine the claims on default results speak of: the default rule base
\* of fifteen rules, the fixed variable catalog, centroid defuzzification.
DefaultConfiguration(a) ==
    /\ a.rules = DefaultRules
    /\ variables = Variables
    /\ defuzzification_method = "centroid"

\* C14: with the default 15-rule base, the fixed variable catalog and
\* centroid defuzzification, recommend_movie(8.5, 85, 90) returns a score of
\* at least 60.
C14_HighInputsScoreAtLeast60 ==
    \A a \in Invocations(call_log) :
        (a.triple = <<170, 170, 180>> /\ DefaultConfiguration(a))
        => /\ a.result # <<>>
           /\ RatLeq(Rat(60, 1), a.result[1].recommendation_score)

\* recommend_movie(8.5, 85, 90) returned a score on the default engine after
\* an earlier call had updated the usage statistics.
C14_Witness ==
    /\ Len(call_log) = 2
    /\ call_log[1].op \in {"recommend_movie", "batch_recommend"}
    /\ recommendation_history # <<>>
    /\ call_log[2].op = "recommend_movie"
    /\ call_log[2].args[1] = <<170, 170, 180>>
    /\ call_log[2].rules = DefaultRules
    /\ defuzzification_method = "centroid"
    /\ call_log[2].returned # <<>>
    /\ DOMAIN call_log[2].returned[1].activated_rules = {"highly_recommended"}

\* C15: with the default 15-rule base, the fixed variable catalog and
\* centroid defuzzification, recommend_movie(3.0, 10.0, 20.0) returns a score
\* of at most 40.
C15_LowInputsScoreAtMost40 ==
    \A a \in Invocations(call_log) :
        (a.triple = <<60, 20, 40>> /\ DefaultConfiguration(a))
        => /\ a.result # <<>>
           /\ RatLeq(a.result[1].recommendation_score, Rat(40, 1))

\* recommend_movie(3.0, 10, 20) returned a positive score on the default
\* engine, with rules fired for not_recommended.
C15_Witness ==
    \E i \in 1..Len(call_log) :
        /\ call_log[i].op = "recommend_movie"
        /\ call_log[i].args[1] = <<60, 20, 40>>
        /\ call_log[i].rules = DefaultRules
        /\ defuzzification_method = "centroid"
        /\ call_log[i].returned # <<>>
        /\ "not_recommended" \in DOMAIN call_log[i].returned[1].activated_rules
        /\ call_log[i].returned[1].recommendation_score # RatZero

\* C16: calculate_membership_degree(v, universe, mf) returns mf[first] for
\* every v at or below the first grid value, mf[last] for every v at or above
\* the last grid value, and otherwise the linear interpolation between the
\* two neighbouring grid samples; at a grid value it returns that sample, and
\* the result lies between the smallest and the largest value of mf.
C16_ClampedLinearInterpolation ==
    (library_call.op = "calculate_membership_degree" /\ library_call.done)
    => LET v == library_call.args[1]
           universe == library_call.args[2]
           mf == library_call.args[3]
           n == Len(universe)
           degree == library_call.returned[1]
       IN  /\ library_call.raised = "none"
           /\ v <= universe[1] => degree = mf[1]
           /\ v >= universe[n] => degree = mf[n]
           /\ \A i \in 1..(n - 1) :
                 (universe[i] <= v /\ v <= universe[i + 1])
                 => (degree - mf[i]) * (universe[i + 1] - universe[i])
                        = (mf[i + 1] - mf[i]) * (v - universe[i])
           /\ \A i \in 1..n : v = universe[i] => degree = mf[i]
           /\ \E i \in 1..n : mf[i] <= degree
           /\ \E i \in 1..n : degree <= mf[i]

\* The degree of 3, a quarter of the way from the grid value 2 (sample 0) to
\* the grid value 6 (sample 1), was computed: 0.25.
C16_Witness ==
    /\ library_call.op = "calculate_membership_degree"
    /\ library_call.done
    /\ library_call.args = <<3, <<2, 6>>, <<0, DegreeOne>> >>
    /\ library_call.returned = <<DegreeOne \div 4>>

\* C17: for parameters a <= b <= c triangular_mf returns degrees in [0, 1]
\* that are exactly 1 at x = b (also when a = b or b = c), 0 for x <= a when
\* a < b and for x >= c when b < c, and linear on [a, b] and on [b, c]; for
\* (1, 5, 9) the degree is 1.0 at 5, 0.0 at 1 and at 9, and 0.5 at 3.
C17_TriangularShape ==
    (/\ library_call.op = "triangular_mf"
     /\ library_call.done
     /\ library_call.args[2][1] <= library_call.args[2][2]
     /\ library_call.args[2][2] <= library_call.args[2][3])
    => LET x == library_call.args[1]
           a == library_call.args[2][1]
           b == library_call.args[2][2]
           c == library_call.args[2][3]
       IN  /\ library_call.raised = "none"
           /\ Len(library_call.returned[1]) = Len(x)
           /\ \A i \in 1..Len(x) :
                 LET y == library_call.returned[1][i]
                 IN  /\ 0 <= y /\ y <= DegreeOne
                     /\ x[i] = b => y = DegreeOne
                     /\ (a < b /\ x[i] <= a) => y = 0
                     /\ (b < c /\ x[i] >= c) => y = 0
                     /\ (a < b /\ a <= x[i] /\ x[i] <= b)
                        => y * (b - a) = (x[i] - a) * DegreeOne
                     /\ (b < c /\ b <= x[i] /\ x[i] <= c)
                        => y * (c - b) = (c - x[i]) * DegreeOne
                     /\ <<a, b, c>> = <<1, 5, 9>>
                        => /\ x[i] = 5 => y = DegreeOne
                           /\ x[i] \in {1, 9} => y = 0
                           /\ x[i] = 3 => 2 * y = DegreeOne

\* triangular_mf returned for (1, 5, 9), with the degree 0.5 at x = 3.
C17_Witness ==
    /\ library_call.op = "triangular_mf"
    /\ library_call.done
    /\ library_call.args[2] = <<1, 5, 9>>
    /\ library_call.raised = "none"
    /\ \E i \in 1..Len(TriangularGrid) :
          /\ TriangularGrid[i] = 3
          /\ 2 * library_call.returned[1][i] = DegreeOne

\* C18: for parameters a <= b <= c <= d trapezoidal_mf returns degrees in
\* [0, 1] that are exactly 1 for every x in [b, c] (the vertical edge of
\* a = b or c = d included), 0 for x <= a when a < b and for x >= d when
\* c < d, and 0 everywhere outside [a, d]; for (0, 20, 60, 80) the degree is
\* 1.0 on [20, 60] and 0.0 at x <= 0 and x >= 80.
C18_TrapezoidalShape ==
    (/\ library_call.op = "trapezoidal_mf"
     /\ library_call.done
     /\ library_call.args[2][1] <= library_call.args[2][2]
     /\ library_call.args[2][2] <= library_call.args[2][3]
     /\ library_call.args[2][3] <= library_call.args[2][4])
    => LET x == library_call.args[1]
           a == library_call.args[2][1]
           b == library_call.args[2][2]
           c == library_call.args[2][3]
           d == library_call.args[2][4]
       IN  /\ library_call.raised = "none"
           /\ Len(library_call.returned[1]) = Len(x)
           /\ \A i \in 1..Len(x) :
                 LET y == library_call.returned[1][i]
                 IN  /\ 0 <= y /\ y <= DegreeOne
                     /\ (b <= x[i] /\ x[i] <= c) => y = DegreeOne
                     /\ (a < b /\ x[i] <= a) => y = 0
                     /\ (c < d /\ x[i] >= d) => y = 0
                     /\ (x[i] < a \/ x[i] > d) => y = 0
                     /\ <<a, b, c, d>> = <<0, 20, 60, 80>>
                        => /\ (20 <= x[i] /\ x[i] <= 60) => y = DegreeOne
                           /\ (x[i] <= 0 \/ x[i] >= 80) => y = 0

\* trapezoidal_mf returned for (0, 20, 60, 80), with a degree strictly
\* between 0 and 1 on a slope.
C18_Witness ==
    /\ library_call.op = "trapezoidal_mf"
    /\ library_call.done
    /\ library_call.args[2] = <<0, 20, 60, 80>>
    /\ library_call.raised = "none"
    /\ \E i \in 1..Len(TrapezoidalGrid) :
          /\ library_call.returned[1][i] > 0
          /\ library_call.returned[1][i] < DegreeOne

\* The variable or the term of condition c is absent from the membership map.
Absent(c, md) ==
    \/ c.variable_name \notin DOMAIN md
    \/ c.linguistic_term \notin DOMAIN md[c.variable_name]

\* The degree an antecedent contributes: 1 - degree when it is negated.
Contribution(c, md) ==
    IF c.negated THEN DegreeOne - md[c.variable_name][c.linguistic_term]
    ELSE md[c.variable_name][c.linguistic_term]

\* The strength (as a scaled integer) is what the claim says of an AND or OR
\* rule: 0 with an absent antecedent, else confidence (in tenths) times the
\* minimum or the maximum of the contributions.
StrengthAsSpecified(rule, md, strength) ==
    IF \E k \in 1..Len(rule.antecedents) : Absent(rule.antecedents[k], md)
    THEN strength = 0
    ELSE LET ds == {Contribution(rule.antecedents[k], md) :
                        k \in 1..Len(rule.antecedents)}
             combined == IF rule.operator = "AND"
                         THEN CHOOSE d \in ds : \A e \in ds : d <= e
                         ELSE CHOOSE d \in ds : \A e \in ds : d >= e
         IN  /\ 10 * strength = rule.confidence * combined
             /\ 0 <= 10 * strength
             /\ 10 * strength <= rule.confidence * DegreeOne

\* C19: for every rule with the operator AND or OR that a recommend_movie
\* invocation evaluates on the membership map of its inputs, evaluate_rule
\* returns 0 if the variable or term of an antecedent is absent from the map,
\* and otherwise rule.confidence times the minimum (AND) or maximum (OR) of
\* the antecedent degrees, a negated antecedent contributing 1 - degree; the
\* result lies in [0, rule.confidence].
C19_RuleStrength ==
    \A a \in Invocations(call_log) :
        InDeclaredRange(a.triple)
        => \A md \in {FuzzifyInputs(variables, a.triple[1], a.triple[2], a.triple[3])} :
           \A i \in 1..Len(a.rules) :
              a.rules[i].operator \in {"AND", "OR"}
              => \A r \in {EvaluateRule(a.rules[i], md, rule_engine.rule_statistics)} :
                    /\ r.raised = "none"
                    /\ StrengthAsSpecified(a.rules[i], md, r.strength)

\* recommend_movie returned on a rule base holding rule 16, an OR rule with
\* a negated antecedent, and rule 16 fired.
C19_Witness ==
    \E a \in Invocations(call_log) :
        /\ \E i \in 1..Len(a.rules) :
              /\ a.rules[i].rule_id = 16
              /\ a.rules[i].operator = "OR"
              /\ a.rules[i].antecedents[1].negated
        /\ a.result # <<>>
        /\ "recommended" \in DOMAIN a.result[1].activated_rules
        /\ \E k \in 1..Len(a.result[1].activated_rules["recommended"]) :
              a.result[1].activated_rules["recommended"][k][1] = 16

\* The (rule id, strength) pairs of the rules with consequent term t that
\* have a positive strength on the membership map md.
FiredPairs(rules, md, t) ==
    {<<rules[i].rule_id, EvaluateRule(rules[i], md, <<>>).strength>> :
        i \in {j \in 1..Len(rules) :
                  /\ rules[j].consequent.linguistic_term = t
                  /\ EvaluateRule(rules[j], md, <<>>).strength > 0}}

\* C20: the map evaluate_all_rules returns (the activated_rules of a result)
\* holds, for each consequent term, exactly the (rule id, strength) pairs of
\* the rules with that consequent whose strength is greater than 0, ordered
\* by non-increasing strength; a term with no fired rule is absent from the
\* map, and every rule id appears at most once in the whole map.
C20_ActivationMap ==
    \A a \in Invocations(call_log) :
        (a.result # <<>> /\ DOMAIN a.result[1].membership_degrees # {})
        => \A md \in {a.result[1].membership_degrees} :
           \A act \in {a.result[1].activated_rules} :
              /\ DOMAIN act =
                    {t \in {a.rules[i].consequent.linguistic_term :
                               i \in 1..Len(a.rules)} :
                        FiredPairs(a.rules, md, t) # {}}
              /\ \A t \in DOMAIN act :
                    /\ {act[t][k] : k \in 1..Len(act[t])} = FiredPairs(a.rules, md, t)
                    /\ Len(act[t]) = Cardinality(FiredPairs(a.rules, md, t))
                    /\ \A k \in 1..(Len(act[t]) - 1) : act[t][k][2] >= act[t][k + 1][2]
              /\ \A t, u \in DOMAIN act :
                 \A k \in 1..Len(act[t]) :
                 \A l \in 1..Len(act[u]) :
                    act[t][k][1] = act[u][l][1] => (t = u /\ k = l)

\* A result lists, for one consequent term, two rules of different strengths
\* of which the stronger was evaluated later.
C20_Witness ==
    \E a \in Invocations(call_log) :
        /\ a.result # <<>>
        /\ \E t \in DOMAIN a.result[1].activated_rules :
           \E k \in 1..(Len(a.result[1].activated_rules[t]) - 1) :
              /\ a.result[1].activated_rules[t][k][2]
                    > a.result[1].activated_rules[t][k + 1][2]
              /\ \E i, j \in 1..Len(a.rules) :
                    /\ i < j
                    /\ a.rules[j].rule_id = a.result[1].activated_rules[t][k][1]
                    /\ a.rules[i].rule_id = a.result[1].activated_rules[t][k + 1][1]

\* The firing strengths of the fired rules with consequent term t.
FiredStrengths(rules, md, t) == {p[2] : p \in FiredPairs(rules, md, t)}

\* C21: the aggregate output curve of a recommendation equals, at every grid
\* point, the maximum over the output terms with at least one fired rule of
\* min(membership of the term at the point, largest firing strength among the
\* term's rules); it is all-zero when no rule fired, and it never exceeds the
\* largest firing strength of any fired rule.
C21_AggregateCurve ==
    \A a \in Invocations(call_log) :
        (a.result # <<>> /\ DOMAIN a.result[1].membership_degrees # {})
        => \A md \in {a.result[1].membership_degrees} :
           \A act \in {a.result[1].activated_rules} :
           \A curve \in {AggregatedMf(variables.recommendation, act)} :
           \A fired \in {[t \in {u \in TermSet(variables.recommendation) :
                                    FiredStrengths(a.rules, md, u) # {}} |->
                             SetMax(FiredStrengths(a.rules, md, t))]} :
              /\ Len(curve) = Len(variables.recommendation.universe)
              /\ \A i \in 1..Len(curve) :
                    /\ curve[i] = SetMax({0} \cup
                                    {Min2(variables.recommendation.mf[t][i], fired[t]) :
                                        t \in DOMAIN fired})
                    /\ DOMAIN act = {} => curve[i] = 0
                    /\ DOMAIN act # {}
                       => curve[i] <= SetMax({MaxActivation(act[t]) : t \in DOMAIN act})

\* A recommendation whose fired rules name three output terms, so that the
\* curve fuses three clipped term curves.
C21_Witness ==
    \E a \in Invocations(call_log) :
        /\ a.result # <<>>
        /\ Cardinality(DOMAIN a.result[1].activated_rules
                       \cap TermSet(variables.recommendation)) = 3
        /\ \E i \in 1..Len(variables.recommendation.universe) :
              AggregatedMf(variables.recommendation,
                           a.result[1].activated_rules)[i] > 0

\* The (rule id, strength) pairs of all fired rules of a rule base.
AllFiredPairs(rules, md) ==
    UNION {FiredPairs(rules, md, t) :
              t \in {rules[i].consequent.linguistic_term : i \in 1..Len(rules)}}

\* 0.5 x S + 0.3 x C + 0.2 x min(1, n / 5) clamped to [0, 1], as a fraction
\* over 150 x DegreeOne: S the largest strength of a fired rule (0 if none),
\* C the mean over the three input variables of the largest term degree, n
\* the number of fired rules.
ConfidenceAsSpecified(rules, md) ==
    LET pairs == AllFiredPairs(rules, md)
        S == SetMax({0} \cup {p[2] : p \in pairs})
        maxima == [i \in 1..Len(InputVariableNames) |->
                      SetMax({md[InputVariableNames[i]][t] :
                                 t \in DOMAIN md[InputVariableNames[i]]})]
        n == Cardinality(pairs)
        num == 75 * S + 15 * SeqSum(maxima) + 6 * DegreeOne * Min2(5, n)
        den == 150 * DegreeOne
    IN  IF num >= den THEN Rat(1, 1) ELSE Rat(num, den)

\* C22 as stated: for every in-range input the confidence of the result is
\* 0.5 x S + 0.3 x C + 0.2 x min(1, n / 5) clamped to [0, 1], with S = 0 when
\* no rule fired.
C22_ConfidenceFormulaAlways ==
    \A a \in Invocations(call_log) :
        (a.result # <<>> /\ DOMAIN a.result[1].membership_degrees # {})
        => a.result[1].confidence_level
              = ConfidenceAsSpecified(a.rules, a.result[1].membership_degrees)

\* C22: for every in-range input on which at least one rule fired the
\* confidence of the result is 0.5 x S + 0.3 x C + 0.2 x min(1, n / 5)
\* clamped to [0, 1], S being the largest firing strength over the fired
\* rules, C the mean over the three input variables of the largest term
\* degree and n the number of fired rules; when no rule fired it is 0.
C22_ConfidenceFormula ==
    \A a \in Invocations(call_log) :
        (a.result # <<>> /\ DOMAIN a.result[1].membership_degrees # {})
        => \A md \in {a.result[1].membership_degrees} :
              a.result[1].confidence_level
                 = IF AllFiredPairs(a.rules, md) = {} THEN RatZero
                   ELSE ConfidenceAsSpecified(a.rules, md)

\* A recommendation for (6.25, 50.5, 65.5), on which five default rules
\* fire, with a confidence strictly between 0 and 1.
C22_Witness ==
    \E a \in Invocations(call_log) :
        /\ a.triple = <<125, 101, 131>>
        /\ a.result # <<>>
        /\ Cardinality(AllFiredPairs(a.rules, a.result[1].membership_degrees)) >= 5
        /\ a.result[1].confidence_level \notin {RatZero, Rat(1, 1)}

\* Twice the trapezoidal area under the curve from the left end of the grid
\* up to its k-th grid value.
AreaUpTo2(universe, mf, k) ==
    RangeSum([i \in 1..(Len(universe) - 1) |-> SegmentArea2(universe, mf, i)],
             1, k - 1)

\* C23: bisector defuzzification returns the smallest grid value x for which
\* the trapezoidal area under the curve from the left end of the grid up to x
\* is at least half of the total area, and 0 when the total area is 0.
C23_BisectorHalvesArea ==
    (crisp # <<>> /\ crisp.method = "bisector")
    => \A universe \in {variables.recommendation.universe} :
       \A total2 \in {AreaUpTo2(universe, aggregated_mf, Len(universe))} :
          IF total2 = 0 THEN crisp.value = RatZero
          ELSE \E k \in 1..Len(universe) :
                  /\ crisp.value = Rat(universe[k], 1)
                  /\ 2 * AreaUpTo2(universe, aggregated_mf, k) >= total2
                  /\ \A j \in 1..(k - 1) :
                        2 * AreaUpTo2(universe, aggregated_mf, j) < total2

\* The grid indices at which the curve attains its global maximum.
GlobalMaxima(mf) == {k \in 1..Len(mf) : \A j \in 1..Len(mf) : mf[j] <= mf[k]}

\* C24: smallest-, mean- and largest-of-maximum defuzzification return the
\* first, the arithmetic mean and the last of the grid values at which the
\* curve attains its global maximum, and each returns 0 when that maximum is
\* 0; so for every curve smallest-of-maximum <= mean-of-maximum <=
\* largest-of-maximum.
C24_MaximaMethods ==
    crisp # <<>>
    => \A universe \in {variables.recommendation.universe} :
       \A maxima \in {GlobalMaxima(aggregated_mf)} :
       \A flat \in {\A k \in maxima : aggregated_mf[k] = 0} :
          /\ crisp.method = "smallest_of_maximum"
             => crisp.value = IF flat THEN RatZero
                              ELSE Rat(universe[CHOOSE k \in maxima :
                                                   \A j \in maxima : k <= j], 1)
          /\ crisp.method = "largest_of_maximum"
             => crisp.value = IF flat THEN RatZero
                              ELSE Rat(universe[SetMax(maxima)], 1)
          /\ crisp.method = "mean_of_maximum"
             => crisp.value = IF flat THEN RatZero
                              ELSE Rat(SetSum(universe, maxima), Cardinality(maxima))
          /\ RatLeq(SomDefuzzification(universe, aggregated_mf),
                    MomDefuzzification(universe, aggregated_mf))
          /\ RatLeq(MomDefuzzification(universe, aggregated_mf),
                    LomDefuzzification(universe, aggregated_mf))

\* Mean-of-maximum was applied to a curve with a plateau of maxima, so that
\* the three methods give three different values.
C24_Witness ==
    /\ crisp # <<>>
    /\ crisp.method = "mean_of_maximum"
    /\ Cardinality(GlobalMaxima(aggregated_mf)) > 2
    /\ crisp.value # RatZero
    /\ crisp.value # SomDefuzzification(variables.recommendation.universe, aggregated_mf)
    /\ crisp.value # LomDefuzzification(variables.recommendation.universe, aggregated_mf)

\* The index of the last call on record that created the statistics entry
\* of rule id anew (a successful add_rule of a rule with that id, or
\* create_movie_recommendation_rules for an id of the default rule base),
\* 0 if the entry dates from the construction of the engine.
LastReset(log, id) ==
    SetMax({0} \cup
           {i \in 1..Len(log) :
               \/ /\ log[i].op = "add_rule"
                  /\ log[i].raised = "none"
                  /\ log[i].args[1].rule_id = id
               \/ /\ log[i].op = "create_movie_recommendation_rules"
                  /\ id \in RuleIds(DefaultRules)})

\* The outcome of the evaluation of rule id in invocation a, in a set of at
\* most one element: nothing if the invocation never evaluated the rule (an
\* out-of-range triple, no such rule, or an earlier rule raised).
EvaluationIn(a, id) ==
    IF ~InDeclaredRange(a.triple) THEN {}
    ELSE LET md == FuzzifyInputs(variables, a.triple[1], a.triple[2], a.triple[3])
         IN  {EvaluateRule(a.rules[i], md, id :> ZeroStatistics) :
                 i \in {j \in 1..Len(a.rules) :
                           /\ a.rules[j].rule_id = id
                           /\ \A h \in 1..(j - 1) :
                                 EvaluateRule(a.rules[h], md, <<>>).raised = "none"}}

\* The invocations since the statistics entry of rule id was created in
\* which the rule was activated: evaluated with a strength greater than 0.
Activations(log, id) ==
    {a \in Invocations(log) :
        /\ a.at[1] > LastReset(log, id)
        /\ \E r \in EvaluationIn(a, id) : r.raised = "none" /\ r.strength > 0}

\* C25: after any sequence of rule evaluations the activation_count of every
\* rule equals the number of evaluations in which the rule was activated,
\* that is, returned a firing strength greater than 0.
C25_CountsActivations ==
    \A id \in DOMAIN rule_engine.rule_statistics :
        rule_engine.rule_statistics[id].activation_count
            = Cardinality(Activations(call_log, id))

\* The results of the successful recommend_movie invocations of one call on
\* record, in order: the result of a direct call that returned, the results
\* of the items of a batch that are no placeholders.
Recommended(call) ==
    IF call.op = "recommend_movie" THEN call.returned
    ELSE IF call.op = "batch_recommend"
    THEN SelectSeq(call.returned[1], LAMBDA r : DOMAIN r.membership_degrees # {})
    ELSE <<>>

\* The results of all successful invocations on record, in call order.
RECURSIVE RecommendedSoFar(_, _)
RecommendedSoFar(log, n) ==
    IF n = 0 THEN <<>> ELSE RecommendedSoFar(log, n - 1) \o Recommended(log[n])

\* C26: every successful recommend_movie invocation appends exactly its
\* returned result to recommendation_history and sets last_recommendation to
\* it, a failed call and a batch placeholder append nothing; so in every
\* state the history is the list of the results of the successful
\* invocations made so far, in call order, and last_recommendation is unset
\* exactly when the history is empty and is its last element otherwise.
C26_HistoryOfSuccesses ==
    /\ recommendation_history = RecommendedSoFar(call_log, Len(call_log))
    /\ (last_recommendation = <<>>) <=> (recommendation_history = <<>>)
    /\ recommendation_history # <<>>
       => last_recommendation
             = <<recommendation_history[Len(recommendation_history)]>>
    /\ \A i \in 1..Len(call_log) :
          (call_log[i].op = "recommend_movie" /\ call_log[i].raised # "none")
          => call_log[i].returned = <<>>

\* A batch with a failed first item and a scored second item, then a direct
\* call that raised: the history holds the one scored result.
C26_Witness ==
    /\ Len(call_log) = 2
    /\ call_log[1].op = "batch_recommend"
    /\ Len(call_log[1].returned[1]) = 2
    /\ IsPlaceholder(call_log[1].returned[1][1])
    /\ ~IsPlaceholder(call_log[1].returned[1][2])
    /\ call_log[2].op = "recommend_movie"
    /\ call_log[2].raised # "none"
    /\ Len(recommendation_history) = 1
    /\ last_recommendation = <<call_log[1].returned[1][2]>>

\* The threads whose call has returned a result.
Returned == {t \in Threads : threads[t].pc = "done"}

\* The strength thread t's call evaluated the rule to.
EvaluatedStrength(t, rule) ==
    EvaluateRule(rule, threads[t].membership_degrees, <<>>).strength

\* C27: when concurrent recommend_movie calls on one engine have all
\* finished, no update of the shared state is lost: every rule's
\* activation_count is the number of times the rule was evaluated, its
\* total_activation_strength the sum of the evaluated strengths, and the
\* history holds exactly one entry per successful call.
C27_NoLostUpdate ==
    (\A t \in Threads : threads[t].pc \in {"done", "raised"})
    => /\ \A i \in 1..Len(rule_engine.rules) :
             \E rule \in {rule_engine.rules[i]} :
                /\ rule_engine.rule_statistics[rule.rule_id].activation_count
                      = Cardinality(Returned)
                /\ rule_engine.rule_statistics[rule.rule_id].total_activation_strength
                      = SetSum([t \in Returned |-> EvaluatedStrength(t, rule)], Returned)
       /\ Len(recommendation_history) = Cardinality(Returned)

\* C28: after any sequence of add_rule, create_movie_recommendation_rules and
\* rule evaluations every rule of the rule base has a usage-statistics entry,
\* and in every entry average_activation_strength is
\* total_activation_strength / activation_count when activation_count > 0,
\* and all three fields are 0 when activation_count is 0.
C28_StatisticsConsistent ==
    /\ RuleIds(rule_engine.rules) \subseteq DOMAIN rule_engine.rule_statistics
    /\ \A id \in DOMAIN rule_engine.rule_statistics :
          \E s \in {rule_engine.rule_statistics[id]} :
             /\ s.activation_count >= 0
             /\ s.activation_count > 0
                => s.average_activation_strength
                      = Rat(s.total_activation_strength, s.activation_count)
             /\ s.activation_count = 0
                => /\ s.total_activation_strength = 0
                   /\ s.average_activation_strength = RatZero

\* Two evaluations of the rule base and an added rule: a rule evaluated twice
\* with a positive total beside a rule never evaluated.
C28_Witness ==
    /\ \E id \in RuleIds(rule_engine.rules) :
          /\ rule_engine.rule_statistics[id].activation_count = 2
          /\ rule_engine.rule_statistics[id].total_activation_strength > 0
    /\ \E id \in RuleIds(rule_engine.rules) :
          rule_engine.rule_statistics[id].activation_count = 0
    /\ \E i \in 1..Len(call_log) :
          call_log[i].op = "add_rule" /\ call_log[i].raised = "none"

\* C29: create_movie_recommendation_rules can be called any number of times,
\* also after add_rule calls and evaluations: the call returns without a
\* duplicate-id error and leaves exactly the 15 default rules, ids 1..15 in
\* this order, in the rule base, with the usage statistics of the 15 rules
\* reset to zero; the consequents of the rules cover the four output terms.
C29_CreateRulesRepeatable ==
    (call_log # <<>>
     /\ LastCall(call_log).op = "create_movie_recommendation_rules")
    => /\ LastCall(call_log).raised = "none"
       /\ rule_engine.rules = DefaultRules
       /\ Len(rule_engine.rules) = 15
       /\ \A i \in 1..15 :
             /\ rule_engine.rules[i].rule_id = i
             /\ rule_engine.rule_statistics[i] = ZeroStatistics
       /\ {rule_engine.rules[i].consequent.linguistic_term : i \in 1..15}
             = {"not_recommended", "possibly_recommended", "recommended",
                "highly_recommended"}
       /\ \A i \in 1..15 :
             rule_engine.rules[i].consequent.variable_name = "recommendation"

\* The rules recreated after a recommendation that counted evaluations, and
\* recreated over a rule base that an add_rule call had extended.
C29_Witness ==
    /\ Len(call_log) = 2
    /\ call_log[2].op = "create_movie_recommendation_rules"
    /\ call_log[2].raised = "none"
    /\ \/ call_log[1].op = "recommend_movie" /\ call_log[1].raised = "none"
       \/ call_log[1].op = "add_rule" /\ Len(call_log[2].rules) = 16
    /\ rule_engine.rule_statistics[1] = ZeroStatistics

\* The entries of the _add_to_history calls on record, in call order.
AddedEntries(log) ==
    [i \in 1..Len(log) |->
        Entry(i, log[i].args[1], log[i].args[2], log[i].args[3])]

\* The last n entries of a list (the whole list if it is shorter).
LastEntries(s, n) ==
    IF Len(s) <= n THEN s ELSE SubSeq(s, Len(s) - n + 1, Len(s))

\* C30: after any sequence of _add_to_history calls the application's
\* recommendation history holds at most 100 entries, and they are the most
\* recently added entries in the order they were added: of the entries
\* loaded and the entries added since, the oldest are the ones dropped.
C30_AppHistoryBounded ==
    /\ Len(app.recommendation_history) <= HistoryLimit
    /\ app.recommendation_history
          = LastEntries(app.loaded \o AddedEntries(call_log), HistoryLimit)

\* A list of 99 entries after three calls: 100 entries, the two oldest
\* dropped, the three new ones at the end in the order of the calls.
C30_Witness ==
    /\ Len(app.loaded) = HistoryLimit - 1
    /\ Len(call_log) = 3
    /\ Len(app.recommendation_history) = HistoryLimit
    /\ app.recommendation_history[1] = app.loaded[3]
    /\ \A k \in 1..3 :
          app.recommendation_history[HistoryLimit - 3 + k].timestamp = k
    /\ call_log[1].args # call_log[2].args

====
